---- MODULE Spec2Model ----
(***************************************************************************)
(* w3bP0ng: the per-frame simulation of src/components/PongGame.tsx        *)
(* (updateGame and the handlers around it) with the engine modules it      *)
(* calls: PhysicsEngine, CollisionDetector, AIController, PowerUpManager.  *)
(*                                                                         *)
(* Numbers.  JavaScript numbers are modelled in fixed point: lengths and   *)
(* velocities are integers counting tenths of a pixel (Px(8) is 8 px),     *)
(* angles are milliradians, wall-clock time is integer milliseconds as     *)
(* Date.now() returns it.  A product with a decimal factor is rounded      *)
(* toward zero to the next tenth (MulDiv).                                 *)
(*                                                                         *)
(* Randomness.  Every Math.random() draw of a tick is an input of the      *)
(* tick, collected in one record `d` (see the Draws sets).                 *)
(***************************************************************************)
EXTENDS Integers, Sequences, FiniteSets, TLC

VARIABLES
    gameState,  \* gameStateRef.current
    now,        \* the wall clock, ms (Date.now())
    lastTick,   \* the frame that produced gameState, if a frame did
    call,       \* an engine function called on its own: input and result
    spawnLog,   \* the frames of the last pickup and of the last spawn
    loop,       \* the game loop: gameStarted, the pending frame callback,
                \* performanceMetrics
    trails,     \* ball.trail and the trail of every extra ball, kept by the
                \* specification of the trails
    sounds,     \* the calls of the audio manager, kept by the specification
                \* of the sounds
    frames      \* the frame callbacks requested and not yet run or cancelled,
                \* kept by the specification of the frame requests

vars ==
    <<gameState, now, lastTick, call, spawnLog, loop, trails, sounds, frames>>

--------------------------------------------------------------------------
(* Fixed-point arithmetic *)

Px(n) == n * 10

Abs(a) == IF a < 0 THEN -a ELSE a

Max(a, b) == IF a > b THEN a ELSE b

Min(a, b) == IF a < b THEN a ELSE b

\* a * num / den, rounded toward zero
MulDiv(a, num, den) ==
    IF a * num >= 0 THEN (a * num) \div den ELSE -((-(a * num)) \div den)

\* largest r with r * r <= n  (Math.sqrt on the fixed-point grid)
RECURSIVE SqrtBin(_, _, _)
SqrtBin(n, lo, hi) ==
    IF lo >= hi THEN lo
    ELSE LET mid == (lo + hi + 1) \div 2
         IN IF mid * mid <= n THEN SqrtBin(n, mid, hi) ELSE SqrtBin(n, lo, mid - 1)

Sqrt(n) == SqrtBin(n, 0, 46340)

\* 1000 * sin(t / 1000) for 0 <= t <= pi * 1000 (Bhaskara's rational form,
\* 16 p / (5 pi^2 - 4 p) with p = t (pi - t), exact to 2 units)
SinHalfTurn(t) ==
    LET p == t * (3142 - t)
    IN (16 * p) \div ((49360820 - 4 * p) \div 1000)

\* 1000 * Math.sin(a / 1000), a in milliradians
SinMilli(a) ==
    LET t == a % 6284
    IN IF t <= 3142 THEN SinHalfTurn(t) ELSE -SinHalfTurn(t - 3142)

\* 1000 * Math.cos(a / 1000)
CosMilli(a) == SinMilli(a + 1571)

--------------------------------------------------------------------------
(* Program constants *)

WINNING_SCORE == 11

INITIAL_SPAWN_TIMER == 420

BALL_RADIUS == Px(8)

EXTRA_BALL_RADIUS == Px(6)

PADDLE_WIDTH == Px(12)

PADDLE_HEIGHT == Px(80)

PADDLE_MARGIN == Px(40)

PADDLE_SPEED == Px(9) \div 2

POWER_UP_RADIUS == Px(20)

\* DEFAULT_PHYSICS_CONFIG
maxBallSpeed == Px(15)

minBallSpeed == Px(4)

PowerUpTypes == {"bigPaddle", "fastBall", "multiBall", "shield"}

\* POWER_UP_TYPES[..].duration, frames
Duration(type) ==
    CASE type = "bigPaddle" -> 480
      [] type = "fastBall"  -> 360
      [] type = "multiBall" -> 600
      [] OTHER              -> 0

\* POWER_UP_TYPES[..].uses
Uses(type) == IF type = "shield" THEN 1 ELSE 0

--------------------------------------------------------------------------
(* PhysicsEngine *)

\* a serve without horizontal speed
resetBall_still(canvasWidth, canvasHeight, d) ==
    [x  |-> canvasWidth \div 2,
     y  |-> canvasHeight \div 2,
     dx |-> 0,
     dy |-> d.serveDy]

\* resetBall(canvasWidth, canvasHeight, 6, 3): d.serveRight is
\* Math.random() > 0.5, d.serveDy is (Math.random() * 6 - 3) * 0.8
resetBall(canvasWidth, canvasHeight, d) ==
    [x  |-> canvasWidth \div 2,
     y  |-> canvasHeight \div 2,
     dx |-> IF d.serveRight THEN Px(6) ELSE -Px(6),
     dy |-> d.serveDy]

\* speedMultiplier is 1 or 1.5, passed as the fraction mulNum / 2
updateBallPosition(ball, mulNum) ==
    [x |-> ball.x + MulDiv(ball.dx, mulNum, 2),
     y |-> ball.y + MulDiv(ball.dy, mulNum, 2)]

checkWallCollision(ball, radius, canvasHeight) ==
    ball.y - radius <= 0 \/ ball.y + radius >= canvasHeight

bounceOffWall(ball) == -ball.dy

\* checkBallOutOfBounds with the two sides exchanged
checkBallOutOfBounds_swapped(ball, canvasWidth) ==
    IF ball.x < 0 THEN "right"
    ELSE IF ball.x > canvasWidth THEN "left"
    ELSE "null"

checkBallOutOfBounds(ball, canvasWidth) ==
    IF ball.x < 0 THEN "left"
    ELSE IF ball.x > canvasWidth THEN "right"
    ELSE "null"

\* the square of the speed: exact on the grid
squaredSpeed(ball) == ball.dx * ball.dx + ball.dy * ball.dy

\* Math.sqrt(dx * dx + dy * dy), in hundredths of a tenth of a pixel
calculateBallSpeed(ball) == Sqrt(squaredSpeed(ball) * 10000)

\* 0 * (minBallSpeed / 0) = 0 * Infinity: both components are NaN
NaNVelocity == [nan |-> TRUE]

\* the limits, without a rescaling
applySpeedLimits_unlimited(ball) == [dx |-> ball.dx, dy |-> ball.dy]

\* The comparisons with the limits are made on the squares, where they are
\* exact; the rescaled components are rounded toward zero to the grid.
applySpeedLimits(ball) ==
    LET currentSpeed == calculateBallSpeed(ball)
    IN IF squaredSpeed(ball) = 0 THEN NaNVelocity
       ELSE IF squaredSpeed(ball) < minBallSpeed * minBallSpeed
       THEN [dx |-> MulDiv(ball.dx, minBallSpeed * 100, currentSpeed),
             dy |-> MulDiv(ball.dy, minBallSpeed * 100, currentSpeed)]
       ELSE IF squaredSpeed(ball) > maxBallSpeed * maxBallSpeed
       THEN [dx |-> MulDiv(ball.dx, maxBallSpeed * 100, currentSpeed),
             dy |-> MulDiv(ball.dy, maxBallSpeed * 100, currentSpeed)]
       ELSE [dx |-> ball.dx, dy |-> ball.dy]

\* chaos is 0 when Math.random() >= chaosChance, else the nudge
\* (Math.random() - 0.5) * chaosIntensity
calculatePaddleBounce(ball, paddleY, paddleHeight, paddleVelocity, chaos) ==
    LET newDx == MulDiv(-ball.dx, 11, 10)
        dy1 == MulDiv(ball.dy, 11, 10)
        dy2 == dy1 + MulDiv(paddleVelocity, 4, 10)
        paddleCenterY == paddleY + paddleHeight \div 2
        \* hitPosition * bounceAngleFactor = (ball.y - centre) / (h / 2) * 3.5
        dy3 == dy2 + MulDiv(ball.y - paddleCenterY, 35 * 2, paddleHeight)
        dy4 == dy3 + chaos
    IN [dx |-> newDx,
        dy |-> Max(-maxBallSpeed, Min(maxBallSpeed, dy4))]

\* updatePaddlePosition() without the bounds checking
updatePaddlePosition_unclamped(currentY, movement, paddleHeight, canvasHeight) ==
    currentY + movement

updatePaddlePosition(currentY, movement, paddleHeight, canvasHeight) ==
    Max(0, Min(canvasHeight - paddleHeight, currentY + movement))

calculatePaddleVelocity(currentY, previousY) == currentY - previousY

--------------------------------------------------------------------------
(* CollisionDetector *)

\* checkCircleRectCollision(...).collided
checkCircleRectCollision(circle, rect) ==
    LET closestX == Max(rect.x, Min(circle.x, rect.x + rect.width))
        closestY == Max(rect.y, Min(circle.y, rect.y + rect.height))
        distanceX == circle.x - closestX
        distanceY == circle.y - closestY
    IN /\ Abs(distanceX) <= circle.radius
       /\ Abs(distanceY) <= circle.radius
       /\ distanceX * distanceX + distanceY * distanceY
             <= circle.radius * circle.radius

\* checkBallPaddleCollision with the paddle grown downwards only
checkCollision_grownDown(ball, radius, paddle, paddleSizeMultiplier) ==
    checkCircleRectCollision(
        [x |-> ball.x, y |-> ball.y, radius |-> radius],
        [x |-> paddle.x, y |-> paddle.y,
         width |-> PADDLE_WIDTH, height |-> PADDLE_HEIGHT * paddleSizeMultiplier])

checkCollision(ball, radius, paddle, paddleSizeMultiplier) ==
    LET paddleHeight == PADDLE_HEIGHT * paddleSizeMultiplier
        paddleY == IF paddleSizeMultiplier > 1
                   THEN paddle.y - (paddleHeight - PADDLE_HEIGHT) \div 2
                   ELSE paddle.y
    IN checkCircleRectCollision(
           [x |-> ball.x, y |-> ball.y, radius |-> radius],
           [x |-> paddle.x, y |-> paddleY,
            width |-> PADDLE_WIDTH, height |-> paddleHeight])

--------------------------------------------------------------------------
(* PowerUpManager *)

\* generateSpawnTimer() with minSeconds = 1
generateSpawnTimer_short(d) ==
    ((1 * 1000 + d.spawnTimer * (10 - 1)) * 60) \div 1000

\* generateSpawnTimer(): Math.floor((minSeconds + Math.random() * (maxSeconds
\* - minSeconds)) * 60).  The draw d.spawnTimer is Math.random() in
\* thousandths; 1000 stands for the doubles next to 1, with which 2 +
\* Math.random() * 8 rounds to 10
generateSpawnTimer(d) == ((2 * 1000 + d.spawnTimer * (10 - 2)) * 60) \div 1000

\* spawnPowerUp(canvasWidth, canvasHeight, Date.now()).  d.posX and d.posY
\* are the two position draws in thousandths; marginX = 150, marginY = 75
spawnPowerUp(canvasWidth, canvasHeight, currentTime, d) ==
    LET x == MulDiv(d.posX, canvasWidth - Px(150) * 2, 1000) + Px(150)
        y == MulDiv(d.posY, canvasHeight - Px(75) * 2, 1000) + Px(75)
    IN [id |-> currentTime,
        type |-> d.type,
        x |-> x,
        y |-> y,
        baseX |-> x,
        baseY |-> y,
        floatOffset |-> d.floatOffset,
        floatSpeed |-> d.floatSpeed,
        floatRadius |-> d.floatRadius,
        maxFloatRadius |-> d.floatRadius,
        spawnTime |-> currentTime]

\* the float radius without the cap
newFloatRadius_uncapped(powerUp, currentTime) ==
    MulDiv(powerUp.maxFloatRadius,
           10000 + (currentTime - powerUp.spawnTime), 10000)

\* growthFactor = 1 + seconds / 10; the radius is capped at 80
newFloatRadius(powerUp, currentTime) ==
    Min(MulDiv(powerUp.maxFloatRadius,
               10000 + (currentTime - powerUp.spawnTime), 10000),
        Px(80))

updatePowerUpAnimation(powerUp, canvasWidth, canvasHeight, currentTime) ==
    LET newFloatOffset == powerUp.floatOffset + powerUp.floatSpeed
        radius == newFloatRadius(powerUp, currentTime)
        floatX == MulDiv(CosMilli(newFloatOffset), radius, 1000)
        floatY == MulDiv(MulDiv(SinMilli(MulDiv(newFloatOffset, 7, 10)),
                                radius, 1000), 6, 10)
        margin == Px(30) + radius
        newX == Max(margin, Min(canvasWidth - margin, powerUp.baseX + floatX))
        newY == Max(margin, Min(canvasHeight - margin, powerUp.baseY + floatY))
    IN [powerUp EXCEPT
           !.x = newX,
           !.y = newY,
           !.baseX = IF newX = margin \/ newX = canvasWidth - margin
                     THEN newX ELSE @,
           !.baseY = IF newY = margin \/ newY = canvasHeight - margin
                     THEN newY ELSE @,
           !.floatOffset = newFloatOffset,
           !.floatRadius = radius]

\* distance < ball.radius + 20, compared on the squares
checkPowerUpCollision_touching(ball, powerUp) ==
    LET dx == ball.x - powerUp.x
        dy == ball.y - powerUp.y
        reach == BALL_RADIUS + POWER_UP_RADIUS
    IN /\ Abs(dx) <= reach
       /\ Abs(dy) <= reach
       /\ dx * dx + dy * dy <= reach * reach

checkPowerUpCollision(ball, powerUp) ==
    LET dx == ball.x - powerUp.x
        dy == ball.y - powerUp.y
        reach == BALL_RADIUS + POWER_UP_RADIUS
    IN /\ Abs(dx) < reach
       /\ Abs(dy) < reach
       /\ dx * dx + dy * dy < reach * reach

getPowerUpOwner(ball) == IF ball.dx > 0 THEN "right" ELSE "left"

\* shouldSpawnPowerUp without the test of the count
shouldSpawnPowerUp_crowded(spawnTimer, currentPowerUpCount) ==
    spawnTimer <= 0

\* shouldSpawnPowerUp one frame late
shouldSpawnPowerUp_late(spawnTimer, currentPowerUpCount) ==
    spawnTimer < 0 /\ currentPowerUpCount = 0

shouldSpawnPowerUp(spawnTimer, currentPowerUpCount) ==
    spawnTimer <= 0 /\ currentPowerUpCount = 0

\* the first power-up of the list the ball touches, as a set of at most one
\* index (empty: null)
findCollidingPowerUp(ball, powerUps) ==
    LET hits == {i \in 1..Len(powerUps) : checkPowerUpCollision(ball, powerUps[i])}
    IN IF hits = {} THEN {}
       ELSE {CHOOSE i \in hits : \A j \in hits : i <= j}

removePowerUp(powerUps, powerUpId) ==
    SelectSeq(powerUps, LAMBDA p : p.id # powerUpId)

--------------------------------------------------------------------------
(* AIController *)

\* speed in tenths of a pixel per frame, accuracy in percent
getAIConfig(difficulty) ==
    CASE difficulty = "easy" ->
           [speed |-> 55, reactionTime |-> 12, accuracy |-> 80,
            predictionEnabled |-> FALSE]
      [] difficulty = "hard" ->
           [speed |-> 75, reactionTime |-> 2, accuracy |-> 98,
            predictionEnabled |-> TRUE]
      [] OTHER ->
           [speed |-> 65, reactionTime |-> 6, accuracy |-> 90,
            predictionEnabled |-> TRUE]

\* the condition and the body of the reflection loop of predictBallPosition
outsideField(predictedY, canvasHeight) ==
    predictedY < 0 \/ predictedY > canvasHeight

reflect(predictedY, canvasHeight) ==
    IF predictedY < 0 THEN -predictedY ELSE 2 * canvasHeight - predictedY

\* the reflection loop of predictBallPosition, run to its end
RECURSIVE foldIntoField(_, _)
foldIntoField(predictedY, canvasHeight) ==
    IF outsideField(predictedY, canvasHeight)
    THEN foldIntoField(reflect(predictedY, canvasHeight), canvasHeight)
    ELSE predictedY

predictBallPosition(ball, targetX, canvasHeight) ==
    IF ball.dx = 0 THEN ball.y
    ELSE foldIntoField(ball.y + MulDiv(ball.dy * (targetX - ball.x), 1, ball.dx),
                       canvasHeight)

\* d.aiError is Math.random() - 0.5 in thousandths; maxError =
\* (1 - accuracy) * 50 px
calculateAITarget(ball, paddle, canvasHeight, config, d) ==
    LET targetY == IF config.predictionEnabled
                   THEN predictBallPosition(ball, paddle.x, canvasHeight)
                   ELSE ball.y
        maxError == (100 - config.accuracy) * 5
        error == MulDiv(d.aiError, maxError, 1000)
    IN Max(0, Min(canvasHeight, targetY + error))

\* updateAIPaddle() without the dead zone
(* The numbers of predictBallPosition are doubles.  A value of the fixed-point
   grid is [big |-> FALSE, v |-> tenths of a pixel]; [big |-> TRUE, v |-> 1]
   and [big |-> TRUE, v |-> -1] stand for the positive and the negative
   doubles of magnitude 2^80 and more (1e30, say), whose neighbours are more
   than 2^27 apart: adding a canvas height to one of them rounds back to
   it. *)
Exact(v) == [big |-> FALSE, v |-> v]

Sign(n) == IF n > 0 THEN 1 ELSE IF n < 0 THEN -1 ELSE 0

\* predictedY = ball.y + ball.dy * timeToReach, before the loop
predictedStart(ball, targetX) ==
    IF ball.dy.big /\ targetX # ball.x
    THEN [big |-> TRUE, v |-> ball.dy.v * Sign(targetX - ball.x) * Sign(ball.dx)]
    ELSE Exact(ball.y + MulDiv((IF ball.dy.big THEN 0 ELSE ball.dy.v)
                                 * (targetX - ball.x), 1, ball.dx))

\* the loop condition, on doubles
outsideFieldDouble(predictedY, canvasHeight) ==
    IF predictedY.big THEN TRUE ELSE outsideField(predictedY.v, canvasHeight)

\* the loop body, on doubles: -predictedY is exact, 2 * canvasHeight -
\* predictedY rounds to -predictedY on a big double
reflectDouble(predictedY, canvasHeight) ==
    IF predictedY.big THEN [predictedY EXCEPT !.v = -predictedY.v]
    ELSE Exact(reflect(predictedY.v, canvasHeight))

updateAIPaddle_noDeadZone(paddle, targetY, canvasHeight, config) ==
    IF targetY - (paddle.y + PADDLE_HEIGHT \div 2) < 0
    THEN Max(0, paddle.y - config.speed)
    ELSE Min(canvasHeight - PADDLE_HEIGHT, paddle.y + config.speed)

updateAIPaddle(paddle, targetY, canvasHeight, config) ==
    LET paddleCenter == paddle.y + PADDLE_HEIGHT \div 2
        difference == targetY - paddleCenter
    IN IF Abs(difference) < Px(2) THEN paddle.y
       ELSE IF difference < 0 THEN Max(0, paddle.y - config.speed)
       ELSE Min(canvasHeight - PADDLE_HEIGHT, paddle.y + config.speed)

\* shouldReact() without the reaction delay
shouldReact_always(currentTime, lastReactionTime, config) == TRUE

\* timeSinceLastReaction > reactionTime * 16.67, in hundredths of a ms
shouldReact(currentTime, lastReactionTime, config) ==
    (currentTime - lastReactionTime) * 100 > config.reactionTime * 1667

isBallApproaching(ball, paddleX) ==
    IF paddleX > Px(400) THEN ball.dx > 0 ELSE ball.dx < 0

\* result: [targetY, lastReactionTime, newPaddleY]
computeAIMove(ball, paddle, aiState, canvasHeight, difficulty, currentTime, d) ==
    LET config == getAIConfig(difficulty)
    IN IF ~isBallApproaching(ball, paddle.x)
       THEN [targetY |-> aiState.targetY,
             lastReactionTime |-> aiState.lastReactionTime,
             newPaddleY |-> paddle.y]
       ELSE IF ~shouldReact(currentTime, aiState.lastReactionTime, config)
       THEN [targetY |-> aiState.targetY,
             lastReactionTime |-> aiState.lastReactionTime,
             newPaddleY |-> updateAIPaddle(paddle, aiState.targetY,
                                           canvasHeight, config)]
       ELSE LET newTarget == calculateAITarget(ball, paddle, canvasHeight,
                                               config, d)
            IN [targetY |-> newTarget,
                lastReactionTime |-> currentTime,
                newPaddleY |-> updateAIPaddle(paddle, newTarget,
                                              canvasHeight, config)]

--------------------------------------------------------------------------
(* PongGame: the game state and the steps of updateGame *)

NoPlayer == "null"

InactiveEffects ==
    [bigPaddle |-> [active |-> FALSE, timeLeft |-> 0, player |-> NoPlayer],
     fastBall  |-> [active |-> FALSE, timeLeft |-> 0],
     multiBall |-> [active |-> FALSE, timeLeft |-> 0, extraBalls |-> <<>>],
     shield    |-> [active |-> FALSE, uses |-> 0, player |-> NoPlayer]]

\* gameStateRef's initial value followed by initializeGamePositions()
InitialGameState(canvas) ==
    [ball |-> [x |-> canvas.width \div 2, y |-> canvas.height \div 2,
               dx |-> Px(4), dy |-> Px(3)],
     paddles |->
        [left  |-> [x |-> PADDLE_MARGIN,
                    y |-> (canvas.height - PADDLE_HEIGHT) \div 2,
                    prevY |-> (canvas.height - PADDLE_HEIGHT) \div 2,
                    velocity |-> 0],
         right |-> [x |-> canvas.width - PADDLE_MARGIN - PADDLE_WIDTH,
                    y |-> (canvas.height - PADDLE_HEIGHT) \div 2,
                    prevY |-> (canvas.height - PADDLE_HEIGHT) \div 2,
                    velocity |-> 0]],
     canvas |-> canvas,
     keys |-> {},
     touch |-> [leftPaddle  |-> [active |-> FALSE, startY |-> 0, currentY |-> 0],
                rightPaddle |-> [active |-> FALSE, startY |-> 0, currentY |-> 0]],
     score |-> [left |-> 0, right |-> 0],
     gameWinner |-> NoPlayer,
     ai |-> [enabled |-> TRUE, difficulty |-> "medium",
             targetY |-> canvas.height \div 2, lastReactionTime |-> 0],
     powerUps |-> <<>>,
     activePowerUps |-> InactiveEffects,
     powerUpSpawnTimer |-> INITIAL_SPAWN_TIMER,
     gameStartTime |-> 0,
     session |-> [rallies |-> 0, longestRally |-> 0, totalHits |-> 0,
                  sessionsPlayed |-> 0]]

\* handleResetBall()
handleResetBall(s, d) ==
    [s EXCEPT !.ball = resetBall(s.canvas.width, s.canvas.height, d)]

\* resetGame() without the reset of the score
resetGame_keepsScore(s, d, currentTime) ==
    handleResetBall(
        [s EXCEPT !.gameWinner = NoPlayer,
                  !.powerUps = <<>>,
                  !.powerUpSpawnTimer = INITIAL_SPAWN_TIMER,
                  !.activePowerUps = InactiveEffects,
                  !.session.sessionsPlayed = @ + 1,
                  !.session.rallies = 0,
                  !.gameStartTime = currentTime],
        d)

\* resetGame()
resetGame(s, d, currentTime) ==
    handleResetBall(
        [s EXCEPT !.score = [left |-> 0, right |-> 0],
                  !.gameWinner = NoPlayer,
                  !.powerUps = <<>>,
                  !.powerUpSpawnTimer = INITIAL_SPAWN_TIMER,
                  !.activePowerUps = InactiveEffects,
                  !.session.sessionsPlayed = @ + 1,
                  !.session.rallies = 0,
                  !.gameStartTime = currentTime],
        d)

\* updateGame, "Reset game with R key"
handleResetKey(s, d, currentTime) ==
    IF "r" \in s.keys \/ "R" \in s.keys
    THEN [resetGame(s, d, currentTime) EXCEPT !.keys = @ \ {"r", "R"}]
    ELSE s

\* the two extra balls of a multi-ball activation; d.multi holds the four
\* draws (Math.random() - 0.5) * 2
newExtraBalls(ball, d) ==
    << [x |-> ball.x + Px(50), y |-> ball.y,
        dx |-> -ball.dx + d.multi[1], dy |-> ball.dy + d.multi[2]],
       [x |-> ball.x - Px(50), y |-> ball.y,
        dx |-> -ball.dx + d.multi[3], dy |-> ball.dy + d.multi[4]] >>

\* the switch of activatePowerUp without the test of multiBall.active
activateEffect_restarts(s, type, player, d) ==
    CASE type = "bigPaddle" ->
           [s EXCEPT !.activePowerUps.bigPaddle =
               [active |-> TRUE, timeLeft |-> Duration(type), player |-> player]]
      [] type = "fastBall" ->
           [s EXCEPT !.activePowerUps.fastBall =
               [active |-> TRUE, timeLeft |-> Duration(type)]]
      [] type = "multiBall" ->
           [s EXCEPT !.activePowerUps.multiBall =
               [active |-> TRUE, timeLeft |-> Duration(type),
                extraBalls |-> newExtraBalls(s.ball, d)]]
      [] OTHER ->
           [s EXCEPT !.activePowerUps.shield =
               [active |-> TRUE, uses |-> Uses(type), player |-> player]]

\* the switch of activatePowerUp with a multi-ball case that keeps the extra
\* balls of a running effect and sets its timeLeft again
activateEffect_extends(s, type, player, d) ==
    CASE type = "bigPaddle" ->
           [s EXCEPT !.activePowerUps.bigPaddle =
               [active |-> TRUE, timeLeft |-> Duration(type), player |-> player]]
      [] type = "fastBall" ->
           [s EXCEPT !.activePowerUps.fastBall =
               [active |-> TRUE, timeLeft |-> Duration(type)]]
      [] type = "multiBall" ->
           IF ~s.activePowerUps.multiBall.active
           THEN [s EXCEPT !.activePowerUps.multiBall =
                    [active |-> TRUE, timeLeft |-> Duration(type),
                     extraBalls |-> newExtraBalls(s.ball, d)]]
           ELSE [s EXCEPT !.activePowerUps.multiBall.timeLeft = Duration(type)]
      [] OTHER ->
           [s EXCEPT !.activePowerUps.shield =
               [active |-> TRUE, uses |-> Uses(type), player |-> player]]

\* the switch of activatePowerUp
activateEffect(s, type, player, d) ==
    CASE type = "bigPaddle" ->
           [s EXCEPT !.activePowerUps.bigPaddle =
               [active |-> TRUE, timeLeft |-> Duration(type), player |-> player]]
      [] type = "fastBall" ->
           [s EXCEPT !.activePowerUps.fastBall =
               [active |-> TRUE, timeLeft |-> Duration(type)]]
      [] type = "multiBall" ->
           IF ~s.activePowerUps.multiBall.active
           THEN [s EXCEPT !.activePowerUps.multiBall =
                    [active |-> TRUE, timeLeft |-> Duration(type),
                     extraBalls |-> newExtraBalls(s.ball, d)]]
           ELSE s
      [] OTHER ->
           [s EXCEPT !.activePowerUps.shield =
               [active |-> TRUE, uses |-> Uses(type), player |-> player]]

activatePowerUp(s, powerUp, player, d) ==
    [activateEffect(s, powerUp.type, player, d) EXCEPT
        !.powerUps = removePowerUp(@, powerUp.id),
        !.powerUpSpawnTimer = generateSpawnTimer(d)]

\* "Power-up spawning"
spawnStep(s, d, currentTime) ==
    LET timer == s.powerUpSpawnTimer - 1
    IN IF shouldSpawnPowerUp(timer, Len(s.powerUps))
       THEN [s EXCEPT
               !.powerUps = Append(@, spawnPowerUp(s.canvas.width,
                                        s.canvas.height, currentTime, d)),
               !.powerUpSpawnTimer = generateSpawnTimer(d)]
       ELSE [s EXCEPT !.powerUpSpawnTimer = timer]

\* "Update power-up animations"
animateStep(s, currentTime) ==
    [s EXCEPT !.powerUps =
        [i \in 1..Len(@) |->
            updatePowerUpAnimation(@[i], s.canvas.width, s.canvas.height,
                                   currentTime)]]

\* one timed effect, with timeLeft >= 0 in place of timeLeft > 0
tickEffect_lingers(effect) ==
    IF effect.active
    THEN [effect EXCEPT !.timeLeft = @ - 1,
                        !.active = (effect.timeLeft - 1 >= 0)]
    ELSE effect

\* one timed effect of the forEach over activePowerUps
tickEffect(effect) ==
    IF effect.active
    THEN [effect EXCEPT !.timeLeft = @ - 1,
                        !.active = (effect.timeLeft - 1 > 0)]
    ELSE effect

\* "Update active power-up timers" without the clearing of extraBalls
effectTimersStep_leaks(s) ==
    [s EXCEPT
        !.activePowerUps.bigPaddle = tickEffect(@),
        !.activePowerUps.fastBall = tickEffect(@),
        !.activePowerUps.multiBall = tickEffect(@)]

\* "Update active power-up timers"; shield has no timeLeft and is skipped
effectTimersStep(s) ==
    LET multi == tickEffect(s.activePowerUps.multiBall)
    IN [s EXCEPT
          !.activePowerUps.bigPaddle = tickEffect(@),
          !.activePowerUps.fastBall = tickEffect(@),
          !.activePowerUps.multiBall =
              IF s.activePowerUps.multiBall.active /\ ~multi.active
              THEN [multi EXCEPT !.extraBalls = <<>>]
              ELSE multi]

\* the drag branch of a paddle: newY = paddle.y + touchDelta * 0.8, clamped
touchDrag(y, touch, h) ==
    IF touch.active
    THEN updatePaddlePosition(
             y + MulDiv(touch.currentY - touch.startY, 8, 10), 0,
             PADDLE_HEIGHT, h)
    ELSE y

\* touch.startY = touch.currentY after the drag was applied
touchConsumed(touch) ==
    IF touch.active THEN [touch EXCEPT !.startY = touch.currentY] ELSE touch

\* "Left paddle movement" (keyboard, then touch drag)
leftPaddleStep(s) ==
    LET h == s.canvas.height
        y0 == s.paddles.left.y
        y1 == IF "w" \in s.keys \/ "W" \in s.keys
              THEN updatePaddlePosition(y0, -PADDLE_SPEED, PADDLE_HEIGHT, h)
              ELSE y0
        y2 == IF "s" \in s.keys \/ "S" \in s.keys
              THEN updatePaddlePosition(y1, PADDLE_SPEED, PADDLE_HEIGHT, h)
              ELSE y1
        y3 == touchDrag(y2, s.touch.leftPaddle, h)
    IN [s EXCEPT !.paddles.left.prevY = y0,
                 !.paddles.left.y = y3,
                 !.touch.leftPaddle = touchConsumed(@),
                 !.paddles.left.velocity = calculatePaddleVelocity(y3, y0)]

\* "Right paddle movement (AI or manual)"
rightPaddleStep(s, d, currentTime) ==
    LET h == s.canvas.height
        y0 == s.paddles.right.y
    IN IF ~s.ai.enabled
       THEN LET y1 == IF "ArrowUp" \in s.keys
                      THEN updatePaddlePosition(y0, -PADDLE_SPEED, PADDLE_HEIGHT, h)
                      ELSE y0
                y2 == IF "ArrowDown" \in s.keys
                      THEN updatePaddlePosition(y1, PADDLE_SPEED, PADDLE_HEIGHT, h)
                      ELSE y1
                y3 == touchDrag(y2, s.touch.rightPaddle, h)
            IN [s EXCEPT !.paddles.right.prevY = y0,
                         !.paddles.right.y = y3,
                         !.touch.rightPaddle = touchConsumed(@),
                         !.paddles.right.velocity = calculatePaddleVelocity(y3, y0)]
       ELSE LET result == computeAIMove(s.ball, s.paddles.right,
                              [targetY |-> s.ai.targetY,
                               lastReactionTime |-> s.ai.lastReactionTime],
                              h, s.ai.difficulty, currentTime, d)
            IN [s EXCEPT !.paddles.right.prevY = y0,
                         !.paddles.right.y = result.newPaddleY,
                         !.paddles.right.velocity =
                             calculatePaddleVelocity(result.newPaddleY, y0),
                         !.ai.targetY = result.targetY,
                         !.ai.lastReactionTime = result.lastReactionTime]

\* gameState.activePowerUps.fastBall.active ? 1.5 : 1, in halves
speedMultiplier(s) == IF s.activePowerUps.fastBall.active THEN 3 ELSE 2

moveBall(b, mulNum) ==
    LET p == updateBallPosition(b, mulNum) IN [b EXCEPT !.x = p.x, !.y = p.y]

\* "Ball movement with speed multiplier" and "Multi-ball movement"
moveStep(s) ==
    LET m == speedMultiplier(s)
    IN [s EXCEPT
          !.ball = moveBall(@, m),
          !.activePowerUps.multiBall.extraBalls =
              IF s.activePowerUps.multiBall.active
              THEN [i \in 1..Len(@) |-> moveBall(@[i], m)]
              ELSE @]

\* "Check for power-up collision"
pickupStep(s, d) ==
    LET hit == findCollidingPowerUp(s.ball, s.powerUps)
    IN IF hit = {} THEN s
       ELSE LET i == CHOOSE j \in hit : TRUE
            IN activatePowerUp(s, s.powerUps[i], getPowerUpOwner(s.ball), d)

\* "Wall collision" of the primary ball
wallStep(s) ==
    IF checkWallCollision(s.ball, BALL_RADIUS, s.canvas.height)
    THEN [s EXCEPT !.ball.dy = bounceOffWall(s.ball)]
    ELSE s

leftPaddleMultiplier(s) ==
    IF s.activePowerUps.bigPaddle.active
       /\ s.activePowerUps.bigPaddle.player = "left" THEN 2 ELSE 1

rightPaddleMultiplier(s) ==
    IF s.activePowerUps.bigPaddle.active
       /\ s.activePowerUps.bigPaddle.player = "right" THEN 2 ELSE 1

\* "Rally tracking"
countHit(session) ==
    [session EXCEPT !.rallies = @ + 1,
                    !.totalHits = @ + 1,
                    !.longestRally = Max(@, session.rallies + 1)]

\* the paddle hit without the ball put on the face of the paddle
primaryBounce_inPlace(s, side, chaos) ==
    LET paddle == s.paddles[side]
        bounced == calculatePaddleBounce(s.ball, paddle.y, PADDLE_HEIGHT,
                                         paddle.velocity, chaos)
        limited == applySpeedLimits([s.ball EXCEPT !.dx = bounced.dx,
                                                   !.dy = bounced.dy])
    IN [s EXCEPT
          !.ball.dx = limited.dx,
          !.ball.dy = limited.dy,
          !.session = countHit(@)]

\* the paddle hit of the primary ball on one side
primaryBounce(s, side, chaos) ==
    LET paddle == s.paddles[side]
        bounced == calculatePaddleBounce(s.ball, paddle.y, PADDLE_HEIGHT,
                                         paddle.velocity, chaos)
        limited == applySpeedLimits([s.ball EXCEPT !.dx = bounced.dx,
                                                   !.dy = bounced.dy])
    IN [s EXCEPT
          !.ball.dx = limited.dx,
          !.ball.dy = limited.dy,
          !.ball.x = IF side = "left"
                     THEN paddle.x + PADDLE_WIDTH + BALL_RADIUS
                     ELSE paddle.x - BALL_RADIUS,
          !.session = countHit(@)]

\* "Paddle collision" of the primary ball, left then right
paddleStep(s, d) ==
    LET s1 == IF s.ball.dx < 0
                 /\ checkCollision(s.ball, BALL_RADIUS, s.paddles.left,
                                   leftPaddleMultiplier(s))
              THEN primaryBounce(s, "left", d.chaos)
              ELSE s
    IN IF s1.ball.dx > 0
          /\ checkCollision(s1.ball, BALL_RADIUS, s1.paddles.right,
                            rightPaddleMultiplier(s1))
       THEN primaryBounce(s1, "right", d.chaos)
       ELSE s1

\* one extra ball of "Multi-ball collisions"
extraBallCollisions(s, b, d) ==
    LET b1 == IF checkWallCollision(b, EXTRA_BALL_RADIUS, s.canvas.height)
              THEN [b EXCEPT !.dy = -b.dy] ELSE b
        b2 == IF b1.dx < 0
                 /\ checkCollision(b1, EXTRA_BALL_RADIUS, s.paddles.left,
                                   leftPaddleMultiplier(s))
              THEN LET bounced == calculatePaddleBounce(b1, s.paddles.left.y,
                                      PADDLE_HEIGHT, s.paddles.left.velocity,
                                      d.chaosExtra)
                   IN [b1 EXCEPT !.dx = Abs(bounced.dx),
                                 !.dy = bounced.dy,
                                 !.x = s.paddles.left.x + PADDLE_WIDTH
                                         + EXTRA_BALL_RADIUS]
              ELSE b1
    IN IF b2.dx > 0
          /\ checkCollision(b2, EXTRA_BALL_RADIUS, s.paddles.right,
                            rightPaddleMultiplier(s))
       THEN LET bounced == calculatePaddleBounce(b2, s.paddles.right.y,
                               PADDLE_HEIGHT, s.paddles.right.velocity,
                               d.chaosExtra)
            IN [b2 EXCEPT !.dx = -Abs(bounced.dx),
                          !.dy = bounced.dy,
                          !.x = s.paddles.right.x - EXTRA_BALL_RADIUS]
       ELSE b2

\* "Multi-ball collisions" with a point for an extra ball that has left
\* the field
extraBallsStep_scores(s, d) ==
    LET balls == s.activePowerUps.multiBall.extraBalls
        s1 == IF s.activePowerUps.multiBall.active
              THEN [s EXCEPT !.activePowerUps.multiBall.extraBalls =
                      [i \in 1..Len(@) |-> extraBallCollisions(s, @[i], d)]]
              ELSE s
    IN IF s.activePowerUps.multiBall.active
          /\ \E i \in 1..Len(balls) :
                checkBallOutOfBounds(balls[i], s.canvas.width) # NoPlayer
       THEN [s1 EXCEPT !.score.left = @ + 1]
       ELSE s1

extraBallsStep(s, d) ==
    IF s.activePowerUps.multiBall.active
    THEN [s EXCEPT !.activePowerUps.multiBall.extraBalls =
            [i \in 1..Len(@) |-> extraBallCollisions(s, @[i], d)]]
    ELSE s

\* "Check out of bounds" with the point given to both sides
scoreStep_both(s, d) ==
    LET outOfBounds == checkBallOutOfBounds(s.ball, s.canvas.width)
    IN IF outOfBounds # NoPlayer
       THEN handleResetBall([s EXCEPT !.score.right = @ + 1,
                                      !.score.left = @ + 1,
                                      !.session.rallies = 0], d)
       ELSE s

\* "Check out of bounds"
scoreStep(s, d) ==
    LET outOfBounds == checkBallOutOfBounds(s.ball, s.canvas.width)
    IN IF outOfBounds = "left"
       THEN handleResetBall([s EXCEPT !.score.right = @ + 1,
                                      !.session.rallies = 0], d)
       ELSE IF outOfBounds = "right"
       THEN handleResetBall([s EXCEPT !.score.left = @ + 1,
                                      !.session.rallies = 0], d)
       ELSE s

\* "Check for winner" with > in place of >=
winnerStep_strict(s) ==
    IF s.score.left > WINNING_SCORE THEN [s EXCEPT !.gameWinner = "left"]
    ELSE IF s.score.right > WINNING_SCORE THEN [s EXCEPT !.gameWinner = "right"]
    ELSE s

\* "Check for winner"
winnerStep(s) ==
    IF s.score.left >= WINNING_SCORE THEN [s EXCEPT !.gameWinner = "left"]
    ELSE IF s.score.right >= WINNING_SCORE THEN [s EXCEPT !.gameWinner = "right"]
    ELSE s

\* updateGame from "Power-up spawning" to "Update active power-up timers"
afterTimers(s, d, currentTime) ==
    effectTimersStep(animateStep(spawnStep(s, d, currentTime), currentTime))

\* updateGame from there to the movement of the balls
beforePickup(s, d, currentTime) ==
    LET s4 == leftPaddleStep(afterTimers(s, d, currentTime))
        s5 == rightPaddleStep(s4, d, currentTime)
    IN moveStep(s5)

\* updateGame from the power-up pickup to the collisions of the extra balls
beforeScore(s, d, currentTime) ==
    LET s7 == pickupStep(beforePickup(s, d, currentTime), d)
        s8 == wallStep(s7)
        s9 == paddleStep(s8, d)
    IN extraBallsStep(s9, d)

\* updateGame after the reset key is handled and no winner is set
playStep(s, d, currentTime) ==
    winnerStep(scoreStep(beforeScore(s, d, currentTime), d))

\* updateGame without the return on a set winner
updateGame_neverFrozen(s, d, currentTime) ==
    playStep(handleResetKey(s, d, currentTime), d, currentTime)

\* updateGame with a return after the reset
updateGame_returnsAfterReset(s, d, currentTime) ==
    LET s0 == handleResetKey(s, d, currentTime)
    IN IF s0.gameWinner # NoPlayer
          \/ s0.session.sessionsPlayed # s.session.sessionsPlayed
       THEN s0
       ELSE playStep(s0, d, currentTime)

updateGame(s, d, currentTime) ==
    LET s0 == handleResetKey(s, d, currentTime)
    IN IF s0.gameWinner # NoPlayer THEN s0 ELSE playStep(s0, d, currentTime)

--------------------------------------------------------------------------
(* The environment: canvas, clock, key events and random draws *)

\* getInitialCanvasSize() in a desktop window (at least 1480 x 1000)
DesktopCanvas == [width |-> Px(1400), height |-> Px(700)]

\* getInitialCanvasSize() in a 380 x 800 window (a phone held upright)
PhoneCanvas == [width |-> Px(300), height |-> Px(500)]

\* Date.now() when the component is constructed
Epoch == 100 * 1000

\* ms between two executed ticks: the whole ms above the 16.67 ms clamp
FrameMs == (1667 + 99) \div 100

\* the model follows a game for MaxTicks ticks, through MaxSessions resets,
\* and each game after a reset for MaxReplayTicks ticks
MaxTicks == 445

MaxLongTicks == 1100

MaxRepickTicks == 720

MaxBounceTicks == 40

\* the engine functions are called on velocities of up to MaxCallSpeed
\* tenths of a pixel per frame in each direction
MaxCallSpeed == 170

\* frames of a paddle session
MaxPaddleTicks == 2

\* frames of a game with a power-up next to the ball
MaxPickupTicks == 2

\* successive calls of updatePowerUpAnimation for one power-up
MaxAnimationSteps == 5

\* the latest time, in ms after Epoch, of a call of computeAIMove
MaxCallTime == 250

\* frames of a game that is followed through its grace period, the last
\* frame before which R is pressed, and the frames followed after the reset
MaxGraceTicks == 450

MaxGraceResetTick == 25

MaxGraceReplayTicks == 425

\* frames of the game with the log
MaxRespawnTicks == 1250

\* ms of the game loop
MaxLoopTime == 70

\* frames of the game with extra balls
MaxExtraTicks == 40

\* frames of the game at a wall
MaxWallTicks == 6

\* frames of the game with trails
MaxTrailTicks == 45

\* frames of the game with a fast ball: the pickup, the 360 frames of the
\* effect and a few more
MaxFastTicks == 365

MaxSessions == 1

MaxReplayTicks == 1

TicksRun == (now - Epoch) \div FrameMs

TicksSinceReset == (now - gameState.gameStartTime) \div FrameMs

BaseDraw ==
    [serveRight |-> TRUE, serveDy |-> -24, chaos |-> 0, chaosExtra |-> 0,
     aiError |-> 0, type |-> "shield", posX |-> 500, posY |-> 500,
     floatOffset |-> 0, floatSpeed |-> 20, floatRadius |-> Px(20),
     spawnTimer |-> 999, multi |-> <<0, 0, 0, 0>>]

\* The draws one tick consumes, given the draw e of the AI error: the
\* groups of Math.random() calls the tick reaches.  A tick reaches a call
\* either for every value of the draws or for none, except through the
\* reset (which serves the ball) and a spawn (which places the power-up the
\* ball may pick up in the same tick): those two count every later call as
\* reached.
consumedDraws(s, currentTime, e) ==
    CHOOSE c \in
        {LET reset == s0.session.sessionsPlayed # s.session.sessionsPlayed
             playing == s0.gameWinner = NoPlayer
             spawn == playing /\ shouldSpawnPowerUp(s0.powerUpSpawnTimer - 1,
                                                    Len(s0.powerUps))
             pickup == playing /\ (spawn \/ Len(f.powerUps) < Len(s0.powerUps))
         IN [serve |-> reset \/ f.score # s0.score,
             chaos |-> reset \/ f.session.totalHits # s0.session.totalHits,
             extra |-> playing /\ (s0.activePowerUps.multiBall.active \/ pickup),
             react |-> reset \/ f.ai.lastReactionTime = currentTime,
             spawn |-> spawn,
             timer |-> pickup,
             multi |-> pickup]
           : s0 \in {handleResetKey(s, BaseDraw, currentTime)},
             f \in {updateGame(s, [BaseDraw EXCEPT !.aiError = e], currentTime)}}
        : TRUE

fitsConsumed(d, c) ==
    /\ c.serve \/ (d.serveRight = BaseDraw.serveRight /\ d.serveDy = BaseDraw.serveDy)
    /\ c.chaos \/ d.chaos = BaseDraw.chaos
    /\ c.extra \/ d.chaosExtra = BaseDraw.chaosExtra
    /\ c.spawn \/ (/\ d.type = BaseDraw.type
                   /\ d.posX = BaseDraw.posX /\ d.posY = BaseDraw.posY
                   /\ d.floatOffset = BaseDraw.floatOffset
                   /\ d.floatSpeed = BaseDraw.floatSpeed
                   /\ d.floatRadius = BaseDraw.floatRadius)
    /\ c.timer \/ d.spawnTimer = BaseDraw.spawnTimer
    /\ c.multi \/ d.multi = BaseDraw.multi

\* the draws of `draws` that differ from BaseDraw only in what the tick
\* consumes: every outcome of the tick under `draws` is the outcome under one
\* of them
RelevantDraws(s, currentTime, draws) ==
    UNION {{d \in draws :
              /\ c0.react \/ d.aiError = BaseDraw.aiError
              /\ \E c \in {IF d.aiError = BaseDraw.aiError THEN c0
                            ELSE consumedDraws(s, currentTime, d.aiError)} :
                    fitsConsumed(d, c)}
             : c0 \in {consumedDraws(s, currentTime, BaseDraw.aiError)}}

DrawSet(serveRights, serveDys, chaoses, aiErrors, types, spawnTimers) ==
    {[BaseDraw EXCEPT !.serveRight = sr, !.serveDy = sd, !.chaos = ch,
                      !.aiError = ae, !.type = ty, !.spawnTimer = st]
       : sr \in serveRights, sd \in serveDys, ch \in chaoses,
         ae \in aiErrors, ty \in types, st \in spawnTimers}

\* the draws of the short game and of the long game
ShortDraws == DrawSet(BOOLEAN, {-24}, {0}, {0}, PowerUpTypes, {999})

LongDraws == DrawSet(BOOLEAN, {-24}, {0}, {0}, PowerUpTypes, {999})

\* the draws of the game with early second power-ups
RepickDraws ==
    DrawSet(BOOLEAN, {-24}, {0}, {0}, {"shield", "multiBall"}, {0, 999})

\* the draws of a rally: the chaos nudge of a paddle hit is drawn too
BounceDraws == DrawSet(BOOLEAN, {-24}, {-30, 0, 30}, {0}, {"shield"}, {999})

\* the keys the player uses: R at any time; S goes down before the first
\* frame and is held
ResetKeys == {"r"}

HeldKeys == {"s"}

--------------------------------------------------------------------------
(* Actions *)

\* lastTick records the frame that produced the current state: the state
\* updateGame started from and the draws it consumed; a key event, which is
\* no frame, leaves NoTick
NoTick == [ran |-> FALSE, before |-> InitialGameState(PhoneCanvas),
           draw |-> BaseDraw]

\* no engine function has been called on its own
NoCall == [fn |-> "none"]

\* nothing picked up and nothing spawned yet.  pickupAt and spawnAt are the
\* numbers of the frames of the last pickup and of the last spawn; spawnAfter
\* is the number of frames from the pickup before the last spawn to that
\* spawn
NoSpawnLog == [pickupAt |-> -1, spawnAt |-> -1, spawnAfter |-> -1]

\* no sound signalled yet
NoFrameSounds ==
    [playPowerUp |-> 0, playWallBounce |-> 0, playPaddleHit |-> 0,
     playScore |-> 0, playVictory |-> 0]

NoSounds == [frame |-> NoFrameSounds, playScore |-> 0, playVictory |-> 0]

\* the frame requests when the component is mounted: the component was
\* rendered with gameStarted false and its effect has run,
\* animationFrameRef.current is null (0), no callback is pending, no id has
\* been handed out
NoFrames ==
    [rendered |-> FALSE, animationFrameRef |-> 0, pending |-> {},
     requested |-> 0]

\* no particle behind any ball
NoTrails == [ball |-> <<>>, extraBalls |-> <<>>]

\* the loop when the component is mounted: the game not started, no frame
\* callback requested, performanceMetrics as initialised; `render` is what
\* the last callback drew and executedAt the times of the last two
\* executions of updateGame
InitialLoop ==
    [started |-> FALSE, scheduled |-> FALSE, lastFrameTime |-> Epoch,
     frameCount |-> 0, render |-> "none", executedAt |-> <<>>]

\* handleKeyDown
KeyDown(k) ==
    /\ k \notin gameState.keys
    /\ gameState' = [gameState EXCEPT !.keys = @ \cup {k}]
    /\ lastTick' = NoTick
    /\ UNCHANGED <<now, call, spawnLog, loop, trails, sounds, frames>>

\* handleKeyUp
KeyUp(k) ==
    /\ k \in gameState.keys
    /\ gameState' = [gameState EXCEPT !.keys = @ \ {k}]
    /\ lastTick' = NoTick
    /\ UNCHANGED <<now, call, spawnLog, loop, trails, sounds, frames>>

\* the frame of s spawns a power-up
spawnedIn(s, d, currentTime) ==
    \E s0 \in {handleResetKey(s, d, currentTime)} :
        /\ s0.gameWinner = NoPlayer
        /\ shouldSpawnPowerUp(s0.powerUpSpawnTimer - 1, Len(s0.powerUps))

\* the frame of s picks a power-up up
pickedIn(s, d, currentTime) ==
    \E s0 \in {handleResetKey(s, d, currentTime)} :
        /\ s0.gameWinner = NoPlayer
        /\ \E s6 \in {beforePickup(s0, d, currentTime)} :
              findCollidingPowerUp(s6.ball, s6.powerUps) # {}

\* the log after a frame, number n, that did or did not spawn and pick up
logged(log, n, spawned, picked) ==
    [pickupAt |-> IF picked THEN n ELSE log.pickupAt,
     spawnAt |-> IF spawned THEN n ELSE log.spawnAt,
     spawnAfter |-> IF ~spawned THEN log.spawnAfter
                    ELSE IF log.pickupAt < 0 THEN -1
                    ELSE n - log.pickupAt]

\* one executed frame of gameLoop: updateGame(); the game after a reset is
\* followed for maxReplayTicks frames, and the log is kept if keepLog
TickCore(draws, maxTicks, maxReplayTicks, keepLog) ==
    /\ TicksRun < maxTicks
    /\ gameState.session.sessionsPlayed = 0 \/ TicksSinceReset < maxReplayTicks
    /\ now' = now + FrameMs
    /\ \E d \in RelevantDraws(gameState, now + FrameMs, draws) :
          /\ gameState' = updateGame(gameState, d, now')
          /\ lastTick' = [ran |-> TRUE, before |-> gameState, draw |-> d]
          /\ spawnLog' =
                IF keepLog
                THEN logged(spawnLog, TicksRun + 1,
                            spawnedIn(gameState, d, now + FrameMs),
                            pickedIn(gameState, d, now + FrameMs))
                ELSE spawnLog

TickWithin(draws, maxTicks, maxReplayTicks) ==
    /\ TickCore(draws, maxTicks, maxReplayTicks, FALSE)
    /\ UNCHANGED <<call, loop, trails, sounds, frames>>

Tick(draws, maxTicks) == TickWithin(draws, maxTicks, MaxReplayTicks)

\* the player presses R
PressReset ==
    \E k \in ResetKeys :
        /\ gameState.session.sessionsPlayed < MaxSessions
        /\ KeyDown(k)

ReleaseReset == \E k \in ResetKeys : KeyUp(k)

\* the player puts a finger on a paddle key before the first frame
HoldKey ==
    \E k \in HeldKeys :
        /\ TicksRun = 0
        /\ KeyDown(k)

Init ==
    /\ gameState = InitialGameState(PhoneCanvas)
    /\ now = Epoch
    /\ lastTick = NoTick
    /\ call = NoCall
    /\ spawnLog = NoSpawnLog
    /\ loop = InitialLoop
    /\ trails = NoTrails
    /\ sounds = NoSounds
    /\ frames = NoFrames

Next == Tick(ShortDraws, MaxTicks) \/ PressReset \/ ReleaseReset \/ HoldKey

Spec == Init /\ [][Next]_vars

InitLong ==
    /\ gameState = InitialGameState(DesktopCanvas)
    /\ now = Epoch
    /\ lastTick = NoTick
    /\ call = NoCall
    /\ spawnLog = NoSpawnLog
    /\ loop = InitialLoop
    /\ trails = NoTrails
    /\ sounds = NoSounds
    /\ frames = NoFrames

NextLong == Tick(LongDraws, MaxLongTicks) \/ PressReset \/ ReleaseReset

SpecLong == InitLong /\ [][NextLong]_vars

\* A rally in progress on the phone canvas: the primary ball is one frame
\* away from a paddle, at one of a few heights against it, with a velocity
\* inside the speed limits; the player holds W, S or no key; multi-ball is
\* off, or on with one extra ball flying with the primary ball and the other
\* one flying at the opposite paddle.
RallyVelocities ==
    {v \in [dx : {10, 40, 90, 135, 149}, dy : {-140, -60, 0, 60, 140}] :
        /\ squaredSpeed(v) >= minBallSpeed * minBallSpeed
        /\ squaredSpeed(v) <= maxBallSpeed * maxBallSpeed}

RallyState(side, v, offset, keys, multi) ==
    LET s == InitialGameState(PhoneCanvas)
        toLeft == side = "left"
        ball == [x |-> IF toLeft
                       THEN s.paddles.left.x + PADDLE_WIDTH + BALL_RADIUS + Px(2)
                       ELSE s.paddles.right.x - BALL_RADIUS - Px(2),
                 y |-> s.paddles[side].y + PADDLE_HEIGHT \div 2 + offset,
                 dx |-> IF toLeft THEN -v.dx ELSE v.dx,
                 dy |-> v.dy]
        other == [x |-> IF toLeft
                        THEN s.paddles.right.x - EXTRA_BALL_RADIUS - Px(2)
                        ELSE s.paddles.left.x + PADDLE_WIDTH
                               + EXTRA_BALL_RADIUS + Px(2),
                  y |-> s.paddles.right.y + PADDLE_HEIGHT \div 2 - offset,
                  dx |-> -ball.dx,
                  dy |-> ball.dy]
    IN [s EXCEPT
          !.ball = ball,
          !.keys = keys,
          !.activePowerUps.multiBall =
              IF multi
              THEN [active |-> TRUE, timeLeft |-> Duration("multiBall") \div 2,
                    extraBalls |-> <<ball, other>>]
              ELSE @]

InitBounce ==
    /\ \E side \in {"left", "right"}, v \in RallyVelocities,
          offset \in {-Px(36), 0, Px(36)}, keys \in {{}, {"w"}, {"s"}},
          multi \in BOOLEAN :
          gameState = RallyState(side, v, offset, keys, multi)
    /\ now = Epoch
    /\ lastTick = NoTick
    /\ call = NoCall
    /\ spawnLog = NoSpawnLog
    /\ loop = InitialLoop
    /\ trails = NoTrails
    /\ sounds = NoSounds
    /\ frames = NoFrames

NextBounce == Tick(BounceDraws, MaxBounceTicks)

SpecBounce == InitBounce /\ [][NextBounce]_vars

\* The engine functions called on their own, each on a range of inputs, as
\* the unit tests of the repository call them.
InitCalls ==
    /\ gameState = InitialGameState(DesktopCanvas)
    /\ now = Epoch
    /\ lastTick = NoTick
    /\ call = NoCall
    /\ spawnLog = NoSpawnLog
    /\ loop = InitialLoop
    /\ trails = NoTrails
    /\ sounds = NoSounds
    /\ frames = NoFrames

CallApplySpeedLimits ==
    /\ call = NoCall
    /\ \E dx \in -MaxCallSpeed..MaxCallSpeed, dy \in -MaxCallSpeed..MaxCallSpeed :
          call' = [fn |-> "applySpeedLimits",
                   input |-> [dx |-> dx, dy |-> dy],
                   result |-> applySpeedLimits([dx |-> dx, dy |-> dy])]
    /\ UNCHANGED <<gameState, now, lastTick, spawnLog, loop, trails, sounds, frames>>

\* paddle positions of the calls, on a grid of half a pixel, and targets
CallPaddleYs == {y \in 0..(PhoneCanvas.height - PADDLE_HEIGHT) : y % 5 = 0}

CallTargets == {0, Px(250), Px(251) + 3, PhoneCanvas.height}

Difficulties == {"easy", "medium", "hard"}

\* updateAIPaddle() called for a paddle at y; `last` is the y of the call
\* before it in a run of successive calls (y itself in the first call)
CallUpdateAIPaddle ==
    /\ call = NoCall
    /\ \E y \in CallPaddleYs, targetY \in CallTargets,
          difficulty \in Difficulties :
          call' = [fn |-> "updateAIPaddle",
                   input |-> [y |-> y, targetY |-> targetY,
                              difficulty |-> difficulty],
                   last |-> y,
                   result |-> updateAIPaddle([y |-> y], targetY,
                                  PhoneCanvas.height, getAIConfig(difficulty))]
    /\ UNCHANGED <<gameState, now, lastTick, spawnLog, loop, trails, sounds, frames>>

\* the next frame's updateAIPaddle() with the same target, from the y the
\* call before returned
StepUpdateAIPaddle ==
    /\ call.fn = "updateAIPaddle"
    /\ call' = [call EXCEPT
                   !.input.y = call.result,
                   !.last = call.input.y,
                   !.result = updateAIPaddle([y |-> call.result],
                                  call.input.targetY, PhoneCanvas.height,
                                  getAIConfig(call.input.difficulty))]
    /\ UNCHANGED <<gameState, now, lastTick, spawnLog, loop, trails, sounds, frames>>

\* times of the calls of computeAIMove, in ms after the last reaction: one
\* ms before and after the reaction delays 33.34, 100.02 and 200.04 ms
CallTimes == {0, 33, 34, 100, 101, 200, 201}

\* the inputs of computeAIMove: the ball, the AI paddle of the phone or of
\* the desktop canvas, the AI state
CallBalls ==
    [x : {Px(150)}, y : {Px(100), Px(250)}, dx : {-Px(4), 0, Px(4)},
     dy : {Px(3)}]

CallPaddles ==
    [x : {PhoneCanvas.width - PADDLE_MARGIN - PADDLE_WIDTH,
          DesktopCanvas.width - PADDLE_MARGIN - PADDLE_WIDTH},
     y : {Px(100), Px(210), Px(300)}]

CallAIStates == [targetY : {Px(140), Px(250)}, lastReactionTime : {0, Epoch}]

aiMoveCall(ball, paddle, aiState, difficulty, currentTime, aiError) ==
    [fn |-> "computeAIMove",
     input |-> [ball |-> ball, paddle |-> paddle, aiState |-> aiState,
                difficulty |-> difficulty, currentTime |-> currentTime],
     result |-> computeAIMove(ball, paddle, aiState, PhoneCanvas.height,
                    difficulty, currentTime,
                    [BaseDraw EXCEPT !.aiError = aiError])]

CallComputeAIMove ==
    /\ call = NoCall
    /\ \E ball \in CallBalls, paddle \in CallPaddles,
          aiState \in CallAIStates, difficulty \in Difficulties,
          t \in CallTimes, aiError \in {-500, 0, 499} :
          call' = aiMoveCall(ball, paddle, aiState, difficulty, Epoch + t,
                             aiError)
    /\ UNCHANGED <<gameState, now, lastTick, spawnLog, loop, trails, sounds, frames>>

\* the next frame's computeAIMove(): the same ball, the paddle and the AI
\* state the call before returned, one frame later
StepComputeAIMove ==
    /\ call.fn = "computeAIMove"
    /\ call.input.currentTime + FrameMs <= Epoch + MaxCallTime
    /\ \E aiError \in {-500, 0, 499} :
          call' = aiMoveCall(call.input.ball,
                     [call.input.paddle EXCEPT !.y = call.result.newPaddleY],
                     [targetY |-> call.result.targetY,
                      lastReactionTime |-> call.result.lastReactionTime],
                     call.input.difficulty,
                     call.input.currentTime + FrameMs, aiError)
    /\ UNCHANGED <<gameState, now, lastTick, spawnLog, loop, trails, sounds, frames>>

\* the balls of the calls of predictBallPosition: slow and fast, flying
\* toward the target and away from it, with a dy of the game and with a dy
\* of 1e30 and -1e30
PredictBalls ==
    [x : {Px(150)}, y : {Px(100), Px(250)}, dx : {-Px(4), 0, 1, Px(4)},
     dy : {Exact(-Px(15)), Exact(0), Exact(Px(3)), Exact(Px(15)),
           [big |-> TRUE, v |-> 1], [big |-> TRUE, v |-> -1]}]

PredictTargets == {PADDLE_MARGIN, PhoneCanvas.width - PADDLE_MARGIN - PADDLE_WIDTH}

\* predictBallPosition() up to its loop: the early return on dx === 0, or
\* predictedY before the first test of the loop condition
CallPredictBallPosition ==
    /\ call = NoCall
    /\ \E ball \in PredictBalls, targetX \in PredictTargets :
          call' = IF ball.dx = 0
                  THEN [fn |-> "predictBallPosition",
                        input |-> [ball |-> ball, targetX |-> targetX],
                        pc |-> "returned", reflected |-> FALSE,
                        start |-> Exact(ball.y), predictedY |-> Exact(ball.y)]
                  ELSE [fn |-> "predictBallPosition",
                        input |-> [ball |-> ball, targetX |-> targetX],
                        pc |-> "loop", reflected |-> FALSE,
                        start |-> predictedStart(ball, targetX),
                        predictedY |-> predictedStart(ball, targetX)]
    /\ UNCHANGED <<gameState, now, lastTick, spawnLog, loop, trails, sounds, frames>>

\* one iteration of the loop
ReflectPredictedY ==
    /\ call.fn = "predictBallPosition"
    /\ call.pc = "loop"
    /\ outsideFieldDouble(call.predictedY, PhoneCanvas.height)
    /\ call' = [call EXCEPT
                   !.predictedY = reflectDouble(@, PhoneCanvas.height),
                   !.reflected = TRUE]
    /\ UNCHANGED <<gameState, now, lastTick, spawnLog, loop, trails, sounds, frames>>

\* the loop condition is false: return predictedY
ReturnPredictedY ==
    /\ call.fn = "predictBallPosition"
    /\ call.pc = "loop"
    /\ ~outsideFieldDouble(call.predictedY, PhoneCanvas.height)
    /\ call' = [call EXCEPT !.pc = "returned"]
    /\ UNCHANGED <<gameState, now, lastTick, spawnLog, loop, trails, sounds, frames>>

\* the canvas of a window 640 px wide and 500 px high
LandscapeCanvas == [width |-> Px(560), height |-> Px(200)]

CallCanvases == {DesktopCanvas, PhoneCanvas, LandscapeCanvas}

\* the draws of spawnPowerUp: positions at the ends and in the middle of the
\* spawn area, float offsets round the circle, the slowest and the fastest
\* float speed, the smallest and the largest float radius
SpawnDraws ==
    {[BaseDraw EXCEPT !.posX = px, !.posY = py, !.floatOffset = fo,
                      !.floatSpeed = fs, !.floatRadius = fr]
       : px \in {0, 500, 999}, py \in {0, 500, 999},
         fo \in {0, 1571, 3142, 4712}, fs \in {20, 50},
         fr \in {Px(20), Px(35) - 1}}

\* ms between the spawn and the first call, and between two calls
AnimationTimes == {0, FrameMs, 30000, 100000}

AnimationSteps == {FrameMs, 30000}

animationCall(powerUp, canvas, currentTime, steps) ==
    [fn |-> "updatePowerUpAnimation",
     input |-> [powerUp |-> powerUp, canvas |-> canvas,
                currentTime |-> currentTime],
     steps |-> steps,
     result |-> updatePowerUpAnimation(powerUp, canvas.width, canvas.height,
                                       currentTime)]

\* updatePowerUpAnimation() for a power-up that spawnPowerUp() made
CallUpdatePowerUpAnimation ==
    /\ call = NoCall
    /\ \E canvas \in CallCanvases, d \in SpawnDraws, t \in AnimationTimes :
          call' = animationCall(
                      spawnPowerUp(canvas.width, canvas.height, Epoch, d),
                      canvas, Epoch + t, 1)
    /\ UNCHANGED <<gameState, now, lastTick, spawnLog, loop, trails, sounds, frames>>

\* the call of a later frame, for the power-up the call before returned
StepUpdatePowerUpAnimation ==
    /\ call.fn = "updatePowerUpAnimation"
    /\ call.steps < MaxAnimationSteps
    /\ \E dt \in AnimationSteps :
          call' = animationCall(call.result, call.input.canvas,
                                call.input.currentTime + dt, call.steps + 1)
    /\ UNCHANGED <<gameState, now, lastTick, spawnLog, loop, trails, sounds, frames>>

\* balls that fly at the right paddle of the phone canvas, a whole number
\* of frames away from it
FlightBalls ==
    {b \in [x : {Px(48), Px(148), Px(228)}, y : {Px(100), Px(250), Px(400)},
            dx : {Px(4), Px(10)}, dy : {-Px(15), -Px(3), 0, Px(3), Px(15)}] :
        (PhoneCanvas.width - PADDLE_MARGIN - PADDLE_WIDTH - b.x) % b.dx = 0}

\* predictBallPosition() for a ball in flight, kept next to the ball while
\* the frames move it
CallPredictInFlight ==
    /\ call = NoCall
    /\ \E ball \in FlightBalls :
          LET targetX == PhoneCanvas.width - PADDLE_MARGIN - PADDLE_WIDTH
          IN call' = [fn |-> "flight", ball |-> ball, targetX |-> targetX,
                      predictedY |-> predictBallPosition(ball, targetX,
                                                         PhoneCanvas.height),
                      bounced |-> FALSE]
    /\ UNCHANGED <<gameState, now, lastTick, spawnLog, loop, trails, sounds, frames>>

\* one frame of the flight: "Ball movement", then "Wall collision"
StepFlight ==
    /\ call.fn = "flight"
    /\ call.ball.x < call.targetX
    /\ \E moved \in {moveBall(call.ball, 2)} :
          LET hit == checkWallCollision(moved, BALL_RADIUS, PhoneCanvas.height)
          IN call' = [call EXCEPT
                        !.ball = IF hit
                                 THEN [moved EXCEPT !.dy = bounceOffWall(moved)]
                                 ELSE moved,
                        !.bounced = @ \/ hit]
    /\ UNCHANGED <<gameState, now, lastTick, spawnLog, loop, trails, sounds, frames>>

\* ball centres round the paddles of the phone canvas (left paddle x 40..52,
\* right paddle x 248..260, y 210..290, enlarged 170..330): 0.1 px outside
\* reach, touching, inside
CollisionBallXs ==
    {Px(32) - 1, Px(32), Px(34), Px(46), Px(60), Px(60) + 1,
     Px(240) - 1, Px(240), Px(254), Px(266), Px(268), Px(268) + 1}

CollisionBallYs ==
    {Px(162) - 1, Px(162), Px(165), Px(170), Px(202) - 1, Px(202), Px(250),
     Px(298), Px(298) + 1, Px(335), Px(338), Px(338) + 1}

\* activePowerUps.bigPaddle: never activated, running for a side, expired
BigPaddleEffects ==
    {[active |-> FALSE, timeLeft |-> 0, player |-> NoPlayer],
     [active |-> TRUE, timeLeft |-> 100, player |-> "left"],
     [active |-> TRUE, timeLeft |-> 100, player |-> "right"],
     [active |-> FALSE, timeLeft |-> 0, player |-> "left"]}

\* the two paddle tests of "Paddle collision" for a ball and an effect
CallCheckCollision ==
    /\ call = NoCall
    /\ \E x \in CollisionBallXs, y \in CollisionBallYs,
          effect \in BigPaddleEffects :
          LET s == [InitialGameState(PhoneCanvas) EXCEPT
                       !.ball.x = x, !.ball.y = y,
                       !.activePowerUps.bigPaddle = effect]
          IN call' = [fn |-> "checkBallPaddleCollision",
                      input |-> [ball |-> s.ball, paddles |-> s.paddles,
                                 effect |-> effect],
                      left |-> checkCollision(s.ball, BALL_RADIUS,
                                   s.paddles.left, leftPaddleMultiplier(s)),
                      right |-> checkCollision(s.ball, BALL_RADIUS,
                                   s.paddles.right, rightPaddleMultiplier(s))]
    /\ UNCHANGED <<gameState, now, lastTick, spawnLog, loop, trails, sounds, frames>>

NextCalls ==
    \/ CallApplySpeedLimits
    \/ CallCheckCollision
    \/ CallPredictInFlight
    \/ StepFlight
    \/ CallUpdatePowerUpAnimation
    \/ StepUpdatePowerUpAnimation
    \/ CallPredictBallPosition
    \/ ReflectPredictedY
    \/ ReturnPredictedY
    \/ CallComputeAIMove
    \/ StepComputeAIMove
    \/ CallUpdateAIPaddle
    \/ StepUpdateAIPaddle

SpecCalls == InitCalls /\ [][NextCalls]_vars

\* keys that move a paddle
PaddleKeys == {"w", "s", "ArrowUp", "ArrowDown"}

\* touchY = touch.clientY - rect.top of a finger above, on and below the
\* canvas
TouchYs == {-Px(50), Px(600)}

\* handleTouchStart with one finger on the half of `side`
handleTouchStart(side, touchY) ==
    /\ TicksRun < MaxPaddleTicks
    /\ gameState' =
          IF side = "left"
          THEN [gameState EXCEPT !.touch.leftPaddle =
                   [active |-> TRUE, startY |-> touchY, currentY |-> touchY]]
          ELSE [gameState EXCEPT !.touch.rightPaddle =
                   [active |-> TRUE, startY |-> touchY, currentY |-> touchY]]
    /\ lastTick' = NoTick
    /\ UNCHANGED <<now, call, spawnLog, loop, trails, sounds, frames>>

\* handleTouchMove with one finger on the half of `side`
handleTouchMove(side, touchY) ==
    /\ TicksRun < MaxPaddleTicks
    /\ IF side = "left" THEN gameState.touch.leftPaddle.active
                        ELSE gameState.touch.rightPaddle.active
    /\ gameState' =
          IF side = "left"
          THEN [gameState EXCEPT !.touch.leftPaddle.currentY = touchY]
          ELSE [gameState EXCEPT !.touch.rightPaddle.currentY = touchY]
    /\ lastTick' = NoTick
    /\ UNCHANGED <<now, call, spawnLog, loop, trails, sounds, frames>>

handleTouchEnd ==
    /\ TicksRun < MaxPaddleTicks
    /\ gameState' = [gameState EXCEPT !.touch.leftPaddle.active = FALSE,
                                      !.touch.rightPaddle.active = FALSE]
    /\ lastTick' = NoTick
    /\ UNCHANGED <<now, call, spawnLog, loop, trails, sounds, frames>>

toggleAI ==
    /\ TicksRun < MaxPaddleTicks
    /\ gameState' = [gameState EXCEPT !.ai.enabled = ~@]
    /\ lastTick' = NoTick
    /\ UNCHANGED <<now, call, spawnLog, loop, trails, sounds, frames>>

\* the player presses or releases a paddle key
PressPaddleKey == \E k \in PaddleKeys : TicksRun < MaxPaddleTicks /\ KeyDown(k)

ReleasePaddleKey == \E k \in PaddleKeys : TicksRun < MaxPaddleTicks /\ KeyUp(k)

\* a game in progress on the phone canvas: both paddles 3 px from the same
\* wall, where a finger has dragged them, the ball near that wall, the
\* easy AI selected
PaddleState(top, right) ==
    LET s == InitialGameState(PhoneCanvas)
        y == IF top THEN Px(3) ELSE PhoneCanvas.height - PADDLE_HEIGHT - Px(3)
    IN [s EXCEPT !.paddles.left.y = y, !.paddles.left.prevY = y,
                 !.paddles.right.y = y, !.paddles.right.prevY = y,
                 !.ball.y = IF top THEN Px(20) ELSE PhoneCanvas.height - Px(20),
                 !.ball.dx = IF right THEN Px(4) ELSE -Px(4),
                 !.ball.dy = 0,
                 !.ai.difficulty = "easy"]

InitPaddles ==
    /\ \E top, right \in BOOLEAN : gameState = PaddleState(top, right)
    /\ now = Epoch
    /\ lastTick = NoTick
    /\ call = NoCall
    /\ spawnLog = NoSpawnLog
    /\ loop = InitialLoop
    /\ trails = NoTrails
    /\ sounds = NoSounds
    /\ frames = NoFrames

PaddleDraws == DrawSet({TRUE}, {-24}, {0}, {0}, {"shield"}, {999})

NextPaddles ==
    \/ Tick(PaddleDraws, MaxPaddleTicks)
    \/ PressPaddleKey
    \/ ReleasePaddleKey
    \/ \E side \in {"left", "right"}, touchY \in TouchYs :
          handleTouchStart(side, touchY)
    \/ \E side \in {"left", "right"}, touchY \in TouchYs :
          handleTouchMove(side, touchY)
    \/ handleTouchEnd
    \/ toggleAI

SpecPaddles == InitPaddles /\ [][NextPaddles]_vars

(***************************************************************************)
(* The handlers between two frames.                                        *)
(***************************************************************************)

\* initializeGamePositions(): ball and paddles centred on s.canvas
initializeGamePositions(s) ==
    [s EXCEPT !.ball.x = s.canvas.width \div 2,
              !.ball.y = s.canvas.height \div 2,
              !.paddles.left.y = (s.canvas.height - PADDLE_HEIGHT) \div 2,
              !.paddles.right.x = s.canvas.width - PADDLE_MARGIN - PADDLE_WIDTH,
              !.paddles.right.y = (s.canvas.height - PADDLE_HEIGHT) \div 2,
              !.ai.targetY = s.canvas.height \div 2,
              !.paddles.left.prevY = (s.canvas.height - PADDLE_HEIGHT) \div 2,
              !.paddles.right.prevY = (s.canvas.height - PADDLE_HEIGHT) \div 2]

\* handleResize: the window now gives the canvas `canvas`
handleResize(canvas) ==
    /\ TicksRun < MaxPaddleTicks
    /\ gameState' = initializeGamePositions([gameState EXCEPT !.canvas = canvas])
    /\ lastTick' = NoTick
    /\ UNCHANGED <<now, call, spawnLog, loop, trails, sounds, frames>>

changeDifficulty(difficulty) ==
    /\ TicksRun < MaxPaddleTicks
    /\ gameState' = [gameState EXCEPT !.ai.difficulty = difficulty]
    /\ lastTick' = NoTick
    /\ UNCHANGED <<now, call, spawnLog, loop, trails, sounds, frames>>

\* one key of each paddle
HandlerKeys == {"w", "ArrowDown"}

\* a finger below the canvas
HandlerTouchYs == {Px(600)}

NextHandlers ==
    \/ Tick(PaddleDraws, MaxPaddleTicks)
    \/ \E k \in HandlerKeys : TicksRun < MaxPaddleTicks /\ KeyDown(k)
    \/ \E k \in HandlerKeys : TicksRun < MaxPaddleTicks /\ KeyUp(k)
    \/ \E side \in {"left", "right"}, touchY \in HandlerTouchYs :
          handleTouchStart(side, touchY)
    \/ \E side \in {"left", "right"}, touchY \in HandlerTouchYs :
          handleTouchMove(side, touchY)
    \/ handleTouchEnd
    \/ toggleAI
    \/ \E difficulty \in Difficulties : changeDifficulty(difficulty)
    \/ \E canvas \in CallCanvases : handleResize(canvas)

SpecHandlers == InitLong /\ [][NextHandlers]_vars

\* distances, along x and along y, between the ball and the power-up at
\* the pickup test of the first frame, about a point where they touch:
\* 16.8^2 + 22.4^2 = 28^2
PickupOffsetsX == (Px(17) - 6)..(Px(17) + 2)

PickupOffsetsY == (Px(22))..(Px(22) + 8)

\* a game in progress on the phone canvas: the ball in the centre, a
\* power-up floating ahead of it and below
PickupState(type, right, offX, offY) ==
    LET s == InitialGameState(PhoneCanvas)
        side == IF right THEN 1 ELSE -1
        x == s.ball.x + side * (Px(4) + offX) - Px(20)
        y == s.ball.y + Px(3) + offY
    IN [s EXCEPT
          !.ball.dx = side * Px(4),
          !.powerUps =
              <<[spawnPowerUp(PhoneCanvas.width, PhoneCanvas.height, Epoch,
                              [BaseDraw EXCEPT !.type = type])
                   EXCEPT !.x = x, !.y = y, !.baseX = x, !.baseY = y]>>]

InitPickup ==
    /\ \E type \in PowerUpTypes, right \in BOOLEAN,
          offX \in PickupOffsetsX, offY \in PickupOffsetsY :
          gameState = PickupState(type, right, offX, offY)
    /\ now = Epoch
    /\ lastTick = NoTick
    /\ call = NoCall
    /\ spawnLog = NoSpawnLog
    /\ loop = InitialLoop
    /\ trails = NoTrails
    /\ sounds = NoSounds
    /\ frames = NoFrames

PickupDraws == DrawSet({TRUE}, {-24}, {0}, {0}, {"shield"}, {999})

\* getPowerUpOwner() called on its own, before the first frame
CallGetPowerUpOwner ==
    /\ call = NoCall
    /\ TicksRun = 0
    /\ \E dx \in {-Px(4), -1, 0, 1, Px(4)} :
          call' = [fn |-> "getPowerUpOwner", input |-> [dx |-> dx],
                   result |-> getPowerUpOwner([dx |-> dx])]
    /\ UNCHANGED <<gameState, now, lastTick, spawnLog, loop, trails, sounds, frames>>

NextPickup ==
    \/ call = NoCall /\ Tick(PickupDraws, MaxPickupTicks)
    \/ CallGetPowerUpOwner

SpecPickup == InitPickup /\ [][NextPickup]_vars

\* the frames that the effect of a second pickup has left when the game is
\* taken up, and the frames the game is followed for
MaxAgainLeft == 5

MaxAgainTicks == 8

\* a game in progress on the phone canvas, as in PickupState, in which the
\* effect of the floating power-up is running since an earlier pickup
AgainState(type, right, offX, offY) ==
    LET s == PickupState(type, right, offX, offY)
    IN [s EXCEPT
          !.activePowerUps.bigPaddle =
              IF type = "bigPaddle"
              THEN [active |-> TRUE, timeLeft |-> MaxAgainLeft,
                    player |-> "right"]
              ELSE @,
          !.activePowerUps.fastBall =
              IF type = "fastBall"
              THEN [active |-> TRUE, timeLeft |-> MaxAgainLeft]
              ELSE @,
          !.activePowerUps.multiBall =
              IF type = "multiBall"
              THEN [active |-> TRUE, timeLeft |-> MaxAgainLeft,
                    extraBalls |-> newExtraBalls(s.ball, BaseDraw)]
              ELSE @]

InitAgain ==
    /\ \E type \in {"bigPaddle", "fastBall", "multiBall"}, right \in BOOLEAN,
          offX \in PickupOffsetsX, offY \in PickupOffsetsY :
          gameState = AgainState(type, right, offX, offY)
    /\ now = Epoch
    /\ lastTick = NoTick
    /\ call = NoCall
    /\ spawnLog = NoSpawnLog
    /\ loop = InitialLoop
    /\ trails = NoTrails
    /\ sounds = NoSounds
    /\ frames = NoFrames

AgainDraws == DrawSet({TRUE}, {-24}, {0}, {0}, {"shield"}, {0, 999})

NextAgain == Tick(AgainDraws, MaxAgainTicks)

SpecAgain == InitAgain /\ [][NextAgain]_vars

GraceDraws == DrawSet(BOOLEAN, {-24}, {0}, {0}, {"shield"}, {999})

\* the player presses R in the first frames of the game
PressResetEarly == TicksRun <= MaxGraceResetTick /\ PressReset

NextGrace ==
    \/ TickWithin(GraceDraws, MaxGraceTicks, MaxGraceReplayTicks)
    \/ PressResetEarly
    \/ ReleaseReset

SpecGrace == InitLong /\ [][NextGrace]_vars

NextRepick == Tick(RepickDraws, MaxRepickTicks) \/ PressReset \/ ReleaseReset

SpecRepick == InitLong /\ [][NextRepick]_vars

--------------------------------------------------------------------------
(* The last frame, read from lastTick *)

\* the frame saw the reset key
sawReset ==
    lastTick.ran /\ ("r" \in lastTick.before.keys \/ "R" \in lastTick.before.keys)

\* the state of the frame after "Reset game with R key"
afterResetKey == handleResetKey(lastTick.before, lastTick.draw, now)

\* the frame went past the return on a set winner
played == lastTick.ran /\ afterResetKey.gameWinner = NoPlayer

\* the state of the frame before "Check out of bounds"
atScoring == beforeScore(afterResetKey, lastTick.draw, now)

\* the state of the frame after "Update active power-up timers"
atTimers == afterTimers(afterResetKey, lastTick.draw, now)

\* the state of the frame before "Check for power-up collision"
atPickup == beforePickup(afterResetKey, lastTick.draw, now)

\* the state of the frame before "Paddle collision"
atPaddles == wallStep(pickupStep(atPickup, lastTick.draw))

\* the primary ball, moving left, touches the left paddle in the frame
hitsLeftPaddle ==
    /\ played
    /\ atPaddles.ball.dx < 0
    /\ checkCollision(atPaddles.ball, BALL_RADIUS, atPaddles.paddles.left,
                      leftPaddleMultiplier(atPaddles))

\* the primary ball, moving right, touches the right paddle in the frame
hitsRightPaddle ==
    /\ played
    /\ atPaddles.ball.dx > 0
    /\ checkCollision(atPaddles.ball, BALL_RADIUS, atPaddles.paddles.right,
                      rightPaddleMultiplier(atPaddles))

\* the type of the power-up the frame picked up: the one that floated
\* before the pickup step and is gone at the end
pickedType ==
    IF played /\ atPickup.powerUps # <<>> /\ gameState.powerUps = <<>>
    THEN atPickup.powerUps[1].type
    ELSE "none"

\* the side on which the primary ball left the field in the frame
exitSide ==
    IF ~played THEN "none"
    ELSE IF atScoring.ball.x < 0 THEN "left"
    ELSE IF atScoring.ball.x > gameState.canvas.width THEN "right"
    ELSE "none"

centre == [x |-> gameState.canvas.width \div 2,
           y |-> gameState.canvas.height \div 2]

\* the frame spawned a power-up: spawnPowerUp stamps it with Date.now()
spawnedInFrame ==
    played /\ \E i \in 1..Len(atPickup.powerUps) :
                  atPickup.powerUps[i].spawnTime = now

pickedInFrame == pickedType # "none"

--------------------------------------------------------------------------
(* The game with a log of its spawns and pickups *)

\* one executed frame, entered in the log
TickLogged(draws, maxTicks) ==
    /\ TickCore(draws, maxTicks, MaxReplayTicks, TRUE)
    /\ UNCHANGED <<call, loop, trails, sounds, frames>>

\* Math.random() of generateSpawnTimer at its ends and in the middle
RespawnDraws == DrawSet(BOOLEAN, {-24}, {0}, {0}, {"shield"}, {0, 500, 999, 1000})

NextRespawn == TickLogged(RespawnDraws, MaxRespawnTicks)

SpecRespawn == InitLong /\ [][NextRespawn]_vars

(***************************************************************************)
(* The game with extra balls.                                              *)
(***************************************************************************)

\* a rally with multi-ball active and a power-up floating where the second
\* extra ball starts, at the paddle opposite to the primary ball
ExtraState(side, v, offset, keys) ==
    LET s == RallyState(side, v, offset, keys, TRUE)
        other == s.activePowerUps.multiBall.extraBalls[2]
        powerUp == spawnPowerUp(PhoneCanvas.width, PhoneCanvas.height, Epoch,
                                [BaseDraw EXCEPT !.type = "shield"])
    IN [s EXCEPT
          !.powerUps = <<[powerUp EXCEPT !.x = other.x, !.y = other.y,
                                         !.baseX = other.x - powerUp.floatRadius,
                                         !.baseY = other.y]>>]

InitExtras ==
    /\ \E side \in {"left", "right"}, v \in RallyVelocities,
          offset \in {-Px(36), 0, Px(36)}, keys \in {{}, {"w"}, {"s"}} :
          gameState = ExtraState(side, v, offset, keys)
    /\ now = Epoch
    /\ lastTick = NoTick
    /\ call = NoCall
    /\ spawnLog = NoSpawnLog
    /\ loop = InitialLoop
    /\ trails = NoTrails
    /\ sounds = NoSounds
    /\ frames = NoFrames

NextExtras == Tick(BounceDraws, MaxExtraTicks)

SpecExtras == InitExtras /\ [][NextExtras]_vars

(***************************************************************************)
(* The game with a fast ball.                                              *)
(***************************************************************************)

\* a fast-ball power-up in front of the primary ball, multi-ball just
\* activated
FastState(right, offX, offY) ==
    LET s == PickupState("fastBall", right, offX, offY)
    IN [s EXCEPT !.activePowerUps.multiBall =
           [active |-> TRUE, timeLeft |-> Duration("multiBall"),
            extraBalls |-> newExtraBalls(s.ball, BaseDraw)]]

InitFast ==
    /\ \E right \in BOOLEAN, offX \in {Px(17) - 6, Px(17)},
          offY \in {Px(22), Px(22) + 4} :
          gameState = FastState(right, offX, offY)
    /\ now = Epoch
    /\ lastTick = NoTick
    /\ call = NoCall
    /\ spawnLog = NoSpawnLog
    /\ loop = InitialLoop
    /\ trails = NoTrails
    /\ sounds = NoSounds
    /\ frames = NoFrames

NextFast == Tick(PickupDraws, MaxFastTicks)

SpecFast == InitFast /\ [][NextFast]_vars

(***************************************************************************)
(* The game at a wall.                                                     *)
(***************************************************************************)

\* both paddles 3 px from a wall; the ball `gap` from that wall and flying
\* at it, in mid-field or 2 px in front of the paddle it flies at; the
\* fast-ball effect, if picked up 358 frames ago, in its last two frames
WallState(top, right, atPaddle, gap, v, fast) ==
    LET s == PaddleState(top, right)
    IN [s EXCEPT
          !.ball.x = IF ~atPaddle THEN s.canvas.width \div 2
                     ELSE IF right
                     THEN s.paddles.right.x - BALL_RADIUS - Px(2)
                     ELSE s.paddles.left.x + PADDLE_WIDTH + BALL_RADIUS + Px(2),
          !.ball.y = IF top THEN gap ELSE s.canvas.height - gap,
          !.ball.dx = IF right THEN v.dx ELSE -v.dx,
          !.ball.dy = IF top THEN -v.dy ELSE v.dy,
          !.activePowerUps.fastBall =
              IF fast THEN [active |-> TRUE, timeLeft |-> 2] ELSE @]

InitWall ==
    /\ \E top, right, atPaddle, fast \in BOOLEAN, gap \in {Px(9), Px(12)},
          v \in {[dx |-> Px(4), dy |-> Px(1)], [dx |-> Px(4), dy |-> Px(14)]} :
          gameState = WallState(top, right, atPaddle, gap, v, fast)
    /\ now = Epoch
    /\ lastTick = NoTick
    /\ call = NoCall
    /\ spawnLog = NoSpawnLog
    /\ loop = InitialLoop
    /\ trails = NoTrails
    /\ sounds = NoSounds
    /\ frames = NoFrames

NextWall == Tick(PaddleDraws, MaxWallTicks)

SpecWall == InitWall /\ [][NextWall]_vars

(***************************************************************************)
(* The trails.  A particle is its position and its life; its size, which   *)
(* shrinks by 5% a frame, decides nothing.                                 *)
(***************************************************************************)

\* trail.filter without the removal of the dead particles
ageTrail_keeps(trail) ==
    [i \in 1..Len(trail) |-> [trail[i] EXCEPT !.life = @ - 1]]

\* trail.filter(p => { p.life--; ...; return p.life > 0 })
ageTrail(trail) ==
    LET aged == [i \in 1..Len(trail) |-> [trail[i] EXCEPT !.life = @ - 1]]
        alive(p) == p.life > 0
    IN SelectSeq(aged, alive)

\* trail.push({x, y, size, life}) and the filter
pushTrail(trail, ball, life) ==
    ageTrail(Append(trail, [x |-> ball.x, y |-> ball.y, life |-> life]))

\* the trails after the frame that updateGame runs from state s
trailsAfter(tr, s, d, currentTime) ==
    LET s0 == handleResetKey(s, d, currentTime)
        \* resetGame: extraBalls = [] and handleResetBall: ball.trail = []
        tr0 == IF s0.session.sessionsPlayed # s.session.sessionsPlayed
               THEN NoTrails ELSE tr
    IN IF s0.gameWinner # NoPlayer THEN tr0
       ELSE LET s6 == beforePickup(s0, d, currentTime)
                s7 == pickupStep(s6, d)
                moved == s6.activePowerUps.multiBall.extraBalls
                \* "Multi-ball movement": the trail of every extra ball
                extra6 == IF s6.activePowerUps.multiBall.active
                          THEN [i \in 1..Len(moved) |->
                                  pushTrail(tr0.extraBalls[i], moved[i], 15)]
                          ELSE IF moved = <<>> THEN <<>> ELSE tr0.extraBalls
                \* activatePowerUp: the new extra balls have trail: []
                extra7 == IF Len(s7.activePowerUps.multiBall.extraBalls)
                               # Len(moved)
                          THEN [i \in 1..Len(s7.activePowerUps.multiBall.extraBalls)
                                  |-> <<>>]
                          ELSE extra6
                \* "Update ball trail"
                ball7 == pushTrail(tr0.ball, s7.ball, 20)
                \* handleResetBall after a point: ball.trail = []
                out == checkBallOutOfBounds(
                           beforeScore(s0, d, currentTime).ball, s.canvas.width)
            IN [ball |-> IF out # NoPlayer THEN <<>> ELSE ball7,
                extraBalls |-> extra7]

TickTrails(draws, maxTicks) ==
    /\ TickCore(draws, maxTicks, MaxReplayTicks, FALSE)
    /\ trails' = trailsAfter(trails, gameState, lastTick'.draw, now')
    /\ UNCHANGED <<call, loop, sounds, frames>>

\* rallies with two extra balls that have no trail yet
InitTrails ==
    /\ \E side \in {"left", "right"}, v \in RallyVelocities :
          gameState = RallyState(side, v, 0, {}, TRUE)
    /\ now = Epoch
    /\ lastTick = NoTick
    /\ call = NoCall
    /\ spawnLog = NoSpawnLog
    /\ loop = InitialLoop
    /\ trails = [ball |-> <<>>, extraBalls |-> << <<>>, <<>> >>]
    /\ sounds = NoSounds
    /\ frames = NoFrames

NextTrails == TickTrails(BounceDraws, MaxTrailTicks)

SpecTrails == InitTrails /\ [][NextTrails]_vars

(***************************************************************************)
(* The sounds.  updateGame signals a sound with a call of the audio        *)
(* manager; `sounds` holds the number of calls of each method in the last  *)
(* frame, and the numbers of playScore and playVictory calls since the     *)
(* last reset of the game.                                                 *)
(***************************************************************************)

Count(b) == IF b THEN 1 ELSE 0

\* the playWallBounce and playPaddleHit calls of one extra ball
extraBallSounds(s, b, d) ==
    LET wall == checkWallCollision(b, EXTRA_BALL_RADIUS, s.canvas.height)
        b1 == IF wall THEN [b EXCEPT !.dy = -b.dy] ELSE b
        left == b1.dx < 0
                /\ checkCollision(b1, EXTRA_BALL_RADIUS, s.paddles.left,
                                  leftPaddleMultiplier(s))
        bounced == calculatePaddleBounce(b1, s.paddles.left.y, PADDLE_HEIGHT,
                                         s.paddles.left.velocity, d.chaosExtra)
        b2 == IF left
              THEN [b1 EXCEPT !.dx = Abs(bounced.dx),
                              !.dy = bounced.dy,
                              !.x = s.paddles.left.x + PADDLE_WIDTH
                                      + EXTRA_BALL_RADIUS]
              ELSE b1
        right == b2.dx > 0
                 /\ checkCollision(b2, EXTRA_BALL_RADIUS, s.paddles.right,
                                   rightPaddleMultiplier(s))
    IN [playWallBounce |-> Count(wall),
        playPaddleHit |-> Count(left) + Count(right)]

\* the audio calls of updateGame without the return on a set winner
signalled_frozen(s0, s6, s7, s8, s9, s10, s11, d) ==
    [NoFrameSounds EXCEPT
       !.playScore = Count(checkBallOutOfBounds(s10.ball, s10.canvas.width)
                             # NoPlayer),
       !.playVictory = Count(s11.score.left >= WINNING_SCORE
                             \/ s11.score.right >= WINNING_SCORE)]

\* the audio calls of updateGame, counted by method.  s0 is the game after
\* "Reset game with R key", s6 before "Check for power-up collision", s7
\* after it, s8 after "Wall collision", s9 after "Paddle collision", s10
\* after "Multi-ball collisions" and s11 after "Check out of bounds"
signalled(s0, s6, s7, s8, s9, s10, s11, d) ==
    IF s0.gameWinner # NoPlayer THEN NoFrameSounds
    ELSE LET left == s8.ball.dx < 0
                     /\ checkCollision(s8.ball, BALL_RADIUS, s8.paddles.left,
                                       leftPaddleMultiplier(s8))
             s8l == IF left THEN primaryBounce(s8, "left", d.chaos) ELSE s8
             right == s8l.ball.dx > 0
                      /\ checkCollision(s8l.ball, BALL_RADIUS,
                                        s8l.paddles.right,
                                        rightPaddleMultiplier(s8l))
             balls == IF s9.activePowerUps.multiBall.active
                      THEN s9.activePowerUps.multiBall.extraBalls
                      ELSE <<>>
             Sum[i \in 0..Len(balls)] ==
                 IF i = 0 THEN [playWallBounce |-> 0, playPaddleHit |-> 0]
                 ELSE [playWallBounce |->
                           Sum[i - 1].playWallBounce
                             + extraBallSounds(s9, balls[i], d).playWallBounce,
                       playPaddleHit |->
                           Sum[i - 1].playPaddleHit
                             + extraBallSounds(s9, balls[i], d).playPaddleHit]
         IN [playPowerUp |->
                 Count(findCollidingPowerUp(s6.ball, s6.powerUps) # {}),
             playWallBounce |->
                 Count(checkWallCollision(s7.ball, BALL_RADIUS,
                                          s7.canvas.height))
                 + Sum[Len(balls)].playWallBounce,
             playPaddleHit |->
                 Count(left) + Count(right) + Sum[Len(balls)].playPaddleHit,
             playScore |->
                 Count(checkBallOutOfBounds(s10.ball, s10.canvas.width)
                         # NoPlayer),
             playVictory |->
                 Count(s11.score.left >= WINNING_SCORE
                       \/ s11.score.right >= WINNING_SCORE)]

\* the counts after a frame that made the calls `frame`; resetGame starts a
\* new game
soundsAfter(log, s, frame) ==
    LET reset == "r" \in s.keys \/ "R" \in s.keys
    IN [frame |-> frame,
        playScore |-> (IF reset THEN 0 ELSE log.playScore) + frame.playScore,
        playVictory |-> (IF reset THEN 0 ELSE log.playVictory)
                          + frame.playVictory]

\* one executed frame with its audio calls
TickSounds(draws, maxTicks) ==
    /\ TickCore(draws, maxTicks, MaxReplayTicks, FALSE)
    /\ \E s0 \in {handleResetKey(gameState, lastTick'.draw, now')} :
       \E s6 \in {beforePickup(s0, lastTick'.draw, now')} :
       \E s7 \in {pickupStep(s6, lastTick'.draw)} :
       \E s8 \in {wallStep(s7)} :
       \E s9 \in {paddleStep(s8, lastTick'.draw)} :
       \E s10 \in {extraBallsStep(s9, lastTick'.draw)} :
       \E s11 \in {scoreStep(s10, lastTick'.draw)} :
       \E frame \in {signalled(s0, s6, s7, s8, s9, s10, s11,
                               lastTick'.draw)} :
          sounds' = soundsAfter(sounds, gameState, frame)
    /\ UNCHANGED <<call, loop, trails, frames>>

NextSounds == TickSounds(ShortDraws, MaxTicks) \/ PressReset \/ ReleaseReset

SpecSounds == Init /\ [][NextSounds]_vars

(***************************************************************************)
(* The game loop.  The other specifications take the frames that the loop  *)
(* executes as given; this one has the frame callbacks of the browser,     *)
(* the throttle, the renderer and the start button.  performance.now()    *)
(* and Date.now() advance together, `now` stands for both.                 *)
(***************************************************************************)

\* not (now - metrics.lastFrameTime < 16.67), times in ms
frameDue(currentTime, lastFrameTime) ==
    ~((currentTime - lastFrameTime) * 100 < 1667)

\* the canvas calls of render() before its catch, and of renderFallback()
RenderCalls ==
    {"save", "translate", "createLinearGradient", "fillRect", "setLineDash",
     "beginPath", "moveTo", "lineTo", "stroke", "fillText", "arc", "fill",
     "rotate", "closePath", "restore"}

FallbackCalls == {"fillRect", "fillText"}

\* the calls that throw in a frame: none, one that only render() makes,
\* one that renderFallback() makes too
ThrowingCalls == {{}, {"translate"}, {"arc"}, {"fillText"}}

\* render(): "drawn", "fallback" when the catch of render() has drawn the
\* fallback, "propagated" when renderFallback() has thrown out of render()
render(throwing) ==
    IF throwing \cap RenderCalls = {} THEN "drawn"
    ELSE IF throwing \cap FallbackCalls = {} THEN "fallback"
    ELSE "propagated"

\* ms between two frame callbacks: displays of 240, 120 and 60 Hz (a frame
\* of 16.67 ms is measured as 16 or as 17), and a frame that was dropped
FrameDelays == {4, 8, 16, 17, 33}

\* the last two executions of updateGame with one more: its time and what
\* render() did after it
executed(executedAt, currentTime, rendered) ==
    LET execution == [time |-> currentTime, render |-> rendered]
    IN IF Len(executedAt) < 2 THEN Append(executedAt, execution)
       ELSE <<executedAt[2], execution>>

\* gameLoop(): the callback of requestAnimationFrame
FrameCallback ==
    /\ loop.started /\ loop.scheduled
    /\ now < Epoch + MaxLoopTime
    /\ \E dt \in FrameDelays :
          /\ now' = now + dt
          /\ IF ~frameDue(now + dt, loop.lastFrameTime)
             THEN /\ loop' = [loop EXCEPT !.render = "skipped"]
                  /\ lastTick' = NoTick
                  /\ UNCHANGED gameState
             ELSE \E d \in RelevantDraws(gameState, now + dt, PaddleDraws),
                     throwing \in ThrowingCalls :
                    /\ gameState' = updateGame(gameState, d, now + dt)
                    /\ lastTick' = [ran |-> TRUE, before |-> gameState,
                                    draw |-> d]
                    /\ loop' =
                          IF render(throwing) = "propagated"
                          THEN [loop EXCEPT
                                  !.started = FALSE, !.scheduled = FALSE,
                                  !.render = "propagated",
                                  !.executedAt =
                                      executed(@, now + dt, "propagated")]
                          ELSE [loop EXCEPT
                                  !.frameCount = @ + 1,
                                  !.lastFrameTime = now + dt,
                                  !.render = render(throwing),
                                  !.executedAt =
                                      executed(@, now + dt, render(throwing))]
    /\ UNCHANGED <<call, spawnLog, trails, sounds, frames>>

\* the start button: setGameStarted(!gameStarted) and the effect that
\* requests or cancels the frame callback
toggleGameStarted ==
    /\ loop' = [loop EXCEPT !.started = ~@, !.scheduled = ~loop.started]
    /\ lastTick' = NoTick
    /\ UNCHANGED <<gameState, now, call, spawnLog, trails, sounds, frames>>

NextLoop == FrameCallback \/ toggleGameStarted

SpecLoop == InitLong /\ [][NextLoop]_vars

(***************************************************************************)
(* The frame requests.  SpecLoop takes the start button and the effect     *)
(* that follows it as one step; here setGameStarted, the effect and the    *)
(* frame callbacks are steps of their own.  A pending callback is the id   *)
(* requestAnimationFrame returned and the gameStarted of the render that   *)
(* made its gameLoop; loop.started is the state gameStarted, loop.scheduled *)
(* says that a callback is pending.                                        *)
(***************************************************************************)

\* ids that requestAnimationFrame hands out
MaxFrameRequests == 6

\* cancelAnimationFrame(id) without effect
cancelAnimationFrame_kept(pending, id) == pending

cancelAnimationFrame(pending, id) == {cb \in pending : cb.id # id}

\* if (animationFrameRef.current) cancelAnimationFrame(...)
cancelCurrent(f) ==
    IF f.animationFrameRef # 0
    THEN [f EXCEPT !.pending = cancelAnimationFrame(@, f.animationFrameRef)]
    ELSE f

\* animationFrameRef.current = requestAnimationFrame(gameLoop)
requestAnimationFrame(f, gameStarted) ==
    [f EXCEPT !.requested = @ + 1,
              !.animationFrameRef = f.requested + 1,
              !.pending = @ \cup {[id |-> f.requested + 1,
                                   gameStarted |-> gameStarted]}]

\* setGameStarted(!gameStarted) of the start button and of the space key, in
\* the handler of the last render
pressStart ==
    /\ loop' = [loop EXCEPT !.started = ~frames.rendered]
    /\ lastTick' = NoTick
    /\ UNCHANGED <<gameState, now, call, spawnLog, trails, sounds, frames>>

\* "Start/stop game loop": the render with the new gameStarted, the cleanup
\* of the effect of the render before, and the effect
startStopEffect ==
    /\ loop.started # frames.rendered
    /\ frames.requested < MaxFrameRequests
    /\ \E cleaned \in {cancelCurrent(frames)} :
          frames' =
             [(IF loop.started
               THEN requestAnimationFrame(cleaned, TRUE)
               ELSE [cancelCurrent(cleaned) EXCEPT !.animationFrameRef = 0])
              EXCEPT !.rendered = loop.started]
    /\ loop' = [loop EXCEPT !.scheduled = frames'.pending # {}]
    /\ lastTick' = NoTick
    /\ UNCHANGED <<gameState, now, call, spawnLog, trails, sounds>>

\* ms between two frame callbacks
FrameRequestDelays == {8, 17}

\* gameLoop(): a pending callback runs
gameLoop ==
    /\ frames.requested < MaxFrameRequests
    /\ \E cb \in frames.pending, dt \in FrameRequestDelays :
          \E fired \in {[frames EXCEPT !.pending = @ \ {cb}]} :
             /\ now' = now + dt
             /\ IF ~cb.gameStarted
                THEN /\ frames' = fired
                     /\ loop' = [loop EXCEPT !.scheduled = fired.pending # {}]
                     /\ lastTick' = NoTick
                     /\ UNCHANGED gameState
                ELSE IF ~frameDue(now + dt, loop.lastFrameTime)
                THEN /\ frames' = requestAnimationFrame(fired, cb.gameStarted)
                     /\ loop' = [loop EXCEPT !.render = "skipped",
                                             !.scheduled = TRUE]
                     /\ lastTick' = NoTick
                     /\ UNCHANGED gameState
                ELSE \E d \in RelevantDraws(gameState, now + dt, PaddleDraws),
                        throwing \in {{}, {"fillText"}} :
                       /\ gameState' = updateGame(gameState, d, now + dt)
                       /\ lastTick' = [ran |-> TRUE, before |-> gameState,
                                       draw |-> d]
                       /\ IF render(throwing) = "propagated"
                          THEN /\ frames' = fired
                               /\ loop' = [loop EXCEPT
                                     !.started = FALSE,
                                     !.scheduled = fired.pending # {},
                                     !.render = "propagated",
                                     !.executedAt =
                                         executed(@, now + dt, "propagated")]
                          ELSE /\ frames' = requestAnimationFrame(
                                                fired, cb.gameStarted)
                               /\ loop' = [loop EXCEPT
                                     !.scheduled = TRUE,
                                     !.frameCount = @ + 1,
                                     !.lastFrameTime = now + dt,
                                     !.render = render(throwing),
                                     !.executedAt =
                                         executed(@, now + dt,
                                                  render(throwing))]
    /\ UNCHANGED <<call, spawnLog, trails, sounds>>

NextFrames == pressStart \/ startStopEffect \/ gameLoop

SpecFrames == InitLong /\ [][NextFrames]_vars

--------------------------------------------------------------------------
(* Properties *)

\* C1: in every state, and so at the end of every tick, gameWinner is
\* "left" iff score.left >= 11, "right" iff score.right >= 11 and null iff
\* both scores are below 11; the tick that scores the 11th point sets the
\* winner.
C1_WinnerIffScore ==
    /\ gameState.gameWinner = "left" <=> gameState.score.left >= 11
    /\ gameState.gameWinner = "right" <=> gameState.score.right >= 11
    /\ gameState.gameWinner = NoPlayer <=>
          (gameState.score.left < 11 /\ gameState.score.right < 11)
    /\ \A side \in {"left", "right"} :
          (lastTick.ran /\ lastTick.before.score[side] = 10
                        /\ gameState.score[side] = 11)
             => gameState.gameWinner = side

C1_Witness ==
    /\ lastTick.ran
    /\ lastTick.before.score.left = 10
    /\ lastTick.before.gameWinner = NoPlayer
    /\ gameState.score.left = 11
    /\ gameState.gameWinner = "left"

\* C2: a tick that starts with a winner set and the reset key not held
\* leaves the whole game state as it was: scores, winner, ball, extra balls,
\* paddles, floating power-ups, spawn timer, active effects and AI state.
C2_FrozenAfterWin ==
    (lastTick.ran /\ lastTick.before.gameWinner # NoPlayer /\ ~sawReset)
        => gameState = lastTick.before

C2_Witness ==
    /\ lastTick.ran
    /\ lastTick.before.gameWinner # NoPlayer
    /\ ~sawReset
    /\ lastTick.before.powerUps # <<>>
    /\ "s" \in lastTick.before.keys

\* C3: in a played tick whose primary ball reaches the out-of-bounds check
\* with x < 0 the right score grows by exactly 1 and the left score stays;
\* with x > canvas width the left score grows by exactly 1 and the right
\* score stays; with 0 <= x <= width the tick leaves both scores as the reset
\* handling left them.  In both scoring cases the tick ends with the primary
\* ball at the centre of the canvas.
C3_OutOfBoundsScores ==
    played =>
        LET x == atScoring.ball.x
            old == afterResetKey.score
            new == gameState.score
        IN /\ x < 0 =>
                /\ new.right = old.right + 1
                /\ new.left = old.left
                /\ gameState.ball.x = centre.x /\ gameState.ball.y = centre.y
           /\ x > gameState.canvas.width =>
                /\ new.left = old.left + 1
                /\ new.right = old.right
                /\ gameState.ball.x = centre.x /\ gameState.ball.y = centre.y
           /\ (0 <= x /\ x <= gameState.canvas.width) => new = old

C3_Witness ==
    /\ played
    /\ atScoring.ball.x < 0
    /\ gameState.score.right = lastTick.before.score.right + 1
    /\ gameState.score.left > 0

\* C4: handling the reset key, from every state and from a frozen one too,
\* sets both scores to 0 and the winner to null, removes every floating
\* power-up, deactivates all four effects with an empty extra-ball list, sets
\* the spawn timer to 420 and puts the primary ball at the centre; the key is
\* cleared, so that the tick counts one reset and the next tick sees none.
C4_ResetRestores ==
    sawReset =>
        /\ afterResetKey.score = [left |-> 0, right |-> 0]
        /\ afterResetKey.gameWinner = NoPlayer
        /\ afterResetKey.powerUps = <<>>
        /\ \A e \in {"bigPaddle", "fastBall", "multiBall", "shield"} :
              ~afterResetKey.activePowerUps[e].active
        /\ afterResetKey.activePowerUps.multiBall.extraBalls = <<>>
        /\ afterResetKey.powerUpSpawnTimer = 420
        /\ afterResetKey.ball.x = centre.x /\ afterResetKey.ball.y = centre.y
        /\ afterResetKey.keys \cap {"r", "R"} = {}
        \* and what of it the rest of the tick cannot undo
        /\ gameState.score = [left |-> 0, right |-> 0]
        /\ gameState.gameWinner = NoPlayer
        /\ gameState.powerUps = <<>>
        /\ gameState.activePowerUps = InactiveEffects
        /\ gameState.keys \cap {"r", "R"} = {}
        /\ gameState.session.sessionsPlayed
              = lastTick.before.session.sessionsPlayed + 1

C4_Witness ==
    /\ sawReset
    /\ lastTick.before.gameWinner # NoPlayer
    /\ lastTick.before.score.right = 11
    /\ lastTick.before.powerUps # <<>>
    /\ gameState.score.right = 0

\* C5, as claimed: a tick that handles the reset key stops after the reset,
\* so it ends with the spawn timer at 420, the ball at the centre and the
\* paddles where they were.
C5_ShortCircuit ==
    sawReset =>
        /\ gameState.powerUpSpawnTimer = 420
        /\ gameState.ball.x = centre.x /\ gameState.ball.y = centre.y
        /\ gameState.paddles = lastTick.before.paddles

\* C5, amended: a tick that handles the reset key goes on as a tick of the
\* new game: it ends with the spawn timer at 419, the served ball one step
\* away from the centre, the left paddle moved by a held key and the previous
\* position of both paddles recorded.
C5_ResetTickPlays ==
    sawReset =>
        /\ gameState.powerUpSpawnTimer = 419
        /\ gameState.ball.x = centre.x + gameState.ball.dx
        /\ gameState.ball.y = centre.y + gameState.ball.dy
        /\ Abs(gameState.ball.dx) = Px(6)
        /\ gameState.paddles.left.prevY = lastTick.before.paddles.left.y
        /\ gameState.paddles.right.prevY = lastTick.before.paddles.right.y
        /\ ("s" \in lastTick.before.keys) =>
              gameState.paddles.left.y
                 = Min(lastTick.before.paddles.left.y + PADDLE_SPEED,
                       gameState.canvas.height - PADDLE_HEIGHT)

C5_Witness ==
    /\ sawReset
    /\ "s" \in lastTick.before.keys
    /\ gameState.powerUpSpawnTimer = 419
    /\ gameState.paddles.left.y > lastTick.before.paddles.left.y

\* C6, as claimed: when the primary ball leaves the field on the side that
\* owns an active shield with one use, the opponent's score is not
\* incremented and the shield is consumed (uses 0, inactive).
C6_ShieldProtects ==
    LET shield == atScoring.activePowerUps.shield
    IN (played /\ shield.active /\ shield.uses = 1 /\ exitSide = shield.player)
          => /\ gameState.score = afterResetKey.score
             /\ ~gameState.activePowerUps.shield.active
             /\ gameState.activePowerUps.shield.uses = 0

\* C7: at most one power-up floats on the field; a played tick spawns one
\* exactly when the spawn timer, after its decrement, is <= 0 and the field
\* is empty, and then the field holds that one power-up.
C7_OneFloatingPowerUp ==
    /\ Len(gameState.powerUps) <= 1
    /\ played =>
          LET timer == afterResetKey.powerUpSpawnTimer - 1
              spawned == \E i \in 1..Len(atPickup.powerUps) :
                            atPickup.powerUps[i].spawnTime = now
          IN /\ spawned <=> (timer <= 0 /\ afterResetKey.powerUps = <<>>)
             /\ Len(atPickup.powerUps) <= 1
             /\ ~spawned =>
                   /\ Len(atPickup.powerUps) = Len(afterResetKey.powerUps)
                   /\ atPickup.powerUpSpawnTimer = timer
    /\ (lastTick.ran /\ ~played) => gameState.powerUps = lastTick.before.powerUps

C7_Witness ==
    /\ played
    /\ lastTick.before.powerUps = <<>>
    /\ lastTick.before.powerUpSpawnTimer = 1
    /\ Len(gameState.powerUps) = 1
    /\ gameState.powerUps[1].spawnTime = now

\* C8: the extra-ball list is non-empty only while multi-ball is active, and
\* then it holds exactly two balls; the timer step that takes the multi-ball
\* countdown from 1 to 0 deactivates the effect and empties the list, and so
\* does the reset.
C8_ExtraBallsWhileMultiBall ==
    LET multi == gameState.activePowerUps.multiBall
        old == afterResetKey.activePowerUps.multiBall
    IN /\ multi.extraBalls # <<>> => multi.active
       /\ multi.active => Len(multi.extraBalls) = 2
       /\ (played /\ old.active /\ old.timeLeft = 1) =>
              /\ ~atTimers.activePowerUps.multiBall.active
              /\ atTimers.activePowerUps.multiBall.extraBalls = <<>>
              /\ pickedType # "multiBall" =>
                    (~multi.active /\ multi.extraBalls = <<>>)
       /\ sawReset =>
              /\ ~old.active /\ old.extraBalls = <<>>
              /\ ~multi.active /\ multi.extraBalls = <<>>

C8_Witness ==
    /\ played
    /\ lastTick.before.activePowerUps.multiBall.active
    /\ lastTick.before.activePowerUps.multiBall.timeLeft = 1
    /\ Len(lastTick.before.activePowerUps.multiBall.extraBalls) = 2
    /\ ~gameState.activePowerUps.multiBall.active
    /\ gameState.activePowerUps.multiBall.extraBalls = <<>>

\* C9: a tick that picks up a multi-ball power-up while multi-ball is active
\* keeps the two extra balls it had: the tick ends with those two balls,
\* moved and bounced like in any tick, and with the countdown it had.
C9_MultiBallReactivationNoOp ==
    LET old == atPickup.activePowerUps.multiBall
        new == gameState.activePowerUps.multiBall
    IN (old.active /\ pickedType = "multiBall") =>
          /\ Len(new.extraBalls) = 2
          /\ \A i \in 1..2 :
                new.extraBalls[i]
                   = extraBallCollisions(atPickup, old.extraBalls[i], lastTick.draw)
          /\ new.active
          /\ new.timeLeft = old.timeLeft

C9_Witness ==
    /\ atPickup.activePowerUps.multiBall.active
    /\ pickedType = "multiBall"
    /\ gameState.activePowerUps.multiBall.timeLeft < 600

\* C10: a big-paddle, fast-ball or multi-ball effect picked up in a tick ends
\* that tick active with its counter at the duration D (480, 360, 600); every
\* later played tick without a pickup of the type takes exactly 1 from the
\* counter; the effect is active exactly while the counter is above 0.  So it
\* is active at the end of the ticks t .. t+D-1 and cleared in tick t+D.
C10_EffectCountdown ==
    \A e \in {"bigPaddle", "fastBall", "multiBall"} :
        LET D == CASE e = "bigPaddle" -> 480
                   [] e = "fastBall" -> 360
                   [] e = "multiBall" -> 600
            old == afterResetKey.activePowerUps[e]
            new == gameState.activePowerUps[e]
        IN /\ new.active <=> new.timeLeft > 0
           /\ new.timeLeft \in 0..D
           /\ (played /\ old.active /\ pickedType # e) =>
                 new.timeLeft = old.timeLeft - 1
           /\ (played /\ ~old.active /\ pickedType # e) => new = old
           /\ (pickedType = e /\ ~(e = "multiBall" /\ old.active /\ old.timeLeft > 1)) =>
                 (new.active /\ new.timeLeft = D)

C10_Witness ==
    /\ played
    /\ lastTick.before.activePowerUps.fastBall.active
    /\ lastTick.before.activePowerUps.fastBall.timeLeft = 1
    /\ ~gameState.activePowerUps.fastBall.active
    /\ gameState.activePowerUps.fastBall.timeLeft = 0

\* C11: the speed of the primary ball is within [minBallSpeed, maxBallSpeed]
\* = [4, 15] in every state of a rally, and so after every paddle bounce,
\* wall bounce and serve; the grid rounds a rescaled velocity toward zero, so
\* the lower limit is met to within 0.2 px.
C11_PrimarySpeedWithinLimits ==
    /\ squaredSpeed(gameState.ball) >= (Px(4) - 2) * (Px(4) - 2)
    /\ squaredSpeed(gameState.ball) <= Px(15) * Px(15)

C11_Witness ==
    /\ lastTick.ran
    /\ gameState.session.totalHits > lastTick.before.session.totalHits
    /\ squaredSpeed(lastTick.before.ball) * 121 > Px(15) * Px(15) * 100
    /\ squaredSpeed(gameState.ball) <= Px(15) * Px(15)
    /\ squaredSpeed(gameState.ball) >= (Px(15) - 2) * (Px(15) - 2)

\* C12, as claimed: an extra ball that bounced off a paddle in a tick (its dx
\* changed sign) ends the tick with a speed within [minBallSpeed,
\* maxBallSpeed] = [4, 15], to within the 0.2 px of the grid.
C12_ExtraSpeedWithinLimits ==
    LET old == lastTick.before.activePowerUps.multiBall.extraBalls
        new == gameState.activePowerUps.multiBall.extraBalls
    IN (played /\ Len(old) = 2 /\ Len(new) = 2) =>
          \A i \in 1..2 :
              old[i].dx * new[i].dx < 0 =>
                 /\ squaredSpeed(new[i]) >= (Px(4) - 2) * (Px(4) - 2)
                 /\ squaredSpeed(new[i]) <= (Px(15) + 2) * (Px(15) + 2)

\* C13, as claimed: for every velocity, the zero velocity included,
\* applySpeedLimits returns a velocity (no NaN) whose speed is within
\* [minBallSpeed, maxBallSpeed]: the lower limit when the input is slower,
\* the upper limit when it is faster (both to the 0.2 px of the grid), the
\* input itself when it is in range; and the result points where the input
\* points.
C13_SpeedLimitsTotal ==
    call.fn = "applySpeedLimits" =>
        LET v == call.input
            r == call.result
        IN /\ DOMAIN r = {"dx", "dy"}
           /\ squaredSpeed(r) >= (Px(4) - 2) * (Px(4) - 2)
           /\ squaredSpeed(r) <= (Px(15) + 1) * (Px(15) + 1)
           /\ squaredSpeed(v) < Px(4) * Px(4) =>
                 squaredSpeed(r) <= Px(4) * Px(4)
           /\ squaredSpeed(v) > Px(15) * Px(15) =>
                 squaredSpeed(r) >= (Px(15) - 2) * (Px(15) - 2)
           /\ (squaredSpeed(v) >= Px(4) * Px(4)
                 /\ squaredSpeed(v) <= Px(15) * Px(15)) => r = v
           /\ r.dx * v.dx >= 0 /\ r.dy * v.dy >= 0
           /\ Abs(r.dx * v.dy - r.dy * v.dx) <= Abs(v.dx) + Abs(v.dy)

\* C13 for every velocity but the zero velocity
C13_SpeedLimitsNonZero ==
    (call.fn = "applySpeedLimits" /\ squaredSpeed(call.input) # 0)
        => C13_SpeedLimitsTotal

\* a paddle position inside the field of state s
paddleInField(s, side) ==
    /\ 0 <= s.paddles[side].y
    /\ s.paddles[side].y <= s.canvas.height - PADDLE_HEIGHT

\* C14: a tick that starts with both paddles inside the field, 0 <= y <=
\* canvas height - paddle height, ends with both paddles inside the field,
\* whatever keys are held, whatever the fingers have dragged, and whether
\* the AI or the player moves the right paddle.
C14_PaddlesInField ==
    (/\ lastTick.ran
     /\ paddleInField(lastTick.before, "left")
     /\ paddleInField(lastTick.before, "right"))
    => (/\ paddleInField(gameState, "left")
        /\ paddleInField(gameState, "right"))

\* a tick in which a finger dragged the left paddle past the top wall while
\* the AI, moving up, was stopped there too
C14_Witness ==
    /\ lastTick.ran
    /\ lastTick.before.touch.leftPaddle.active
    /\ lastTick.before.paddles.left.y
         + MulDiv(lastTick.before.touch.leftPaddle.currentY
                    - lastTick.before.touch.leftPaddle.startY, 8, 10) < 0
    /\ gameState.paddles.left.y = 0
    /\ lastTick.before.ai.enabled
    /\ lastTick.before.paddles.right.y = Px(3)
    /\ gameState.paddles.right.y = 0

\* C15: with the AI enabled, on every canvas, a tick whose ball does not
\* fly toward the right-hand paddle (ball.dx <= 0) leaves the right paddle's
\* y and the AI state (targetY, lastReactionTime) unchanged, and a tick whose
\* ball flies toward it (ball.dx > 0) lets the AI act: a reaction that is due
\* is taken and stamps lastReactionTime with the time of the tick.
C15_AIActsOnlyOnApproach ==
    (played /\ afterResetKey.ai.enabled)
    => /\ afterResetKey.ball.dx <= 0
          => /\ gameState.paddles.right.y = lastTick.before.paddles.right.y
             /\ gameState.ai.targetY = lastTick.before.ai.targetY
             /\ gameState.ai.lastReactionTime
                  = lastTick.before.ai.lastReactionTime
       /\ (/\ afterResetKey.ball.dx > 0
           /\ (now - lastTick.before.ai.lastReactionTime) * 100
                > getAIConfig(lastTick.before.ai.difficulty).reactionTime * 1667)
          => gameState.ai.lastReactionTime = now

\* C16: with the hard AI (7.5 px per frame) and a fixed target, successive
\* updateAIPaddle steps never move the paddle one way in one frame and back
\* in the next.
C16_NoOscillation ==
    (call.fn = "updateAIPaddle" /\ call.input.difficulty = "hard")
    => /\ ~(call.input.y < call.last /\ call.result > call.input.y)
       /\ ~(call.input.y > call.last /\ call.result < call.input.y)

\* the reaction delay of a difficulty has passed between two times:
\* more than reactionTime * 16.67 ms, in hundredths of a ms
reactionDue(difficulty, lastReactionTime, currentTime) ==
    (currentTime - lastReactionTime) * 100
        > (CASE difficulty = "easy" -> 12 [] difficulty = "hard" -> 2
             [] OTHER -> 6) * 1667

\* C17: computeAIMove stamps lastReactionTime with the current time (and
\* recomputes the target) exactly when the ball is approaching and more than
\* reactionTime * 16.67 ms have passed since lastReactionTime; otherwise it
\* returns the AI state unchanged, holds the paddle when the ball is not
\* approaching, and steps the paddle toward the old target when it is.  Two
\* successive stamps are therefore more than the reaction delay apart.
C17_ReactionDelay ==
    call.fn = "computeAIMove"
    => LET in == call.input
           out == call.result
           approaching == isBallApproaching(in.ball, in.paddle.x)
           centre0 == in.paddle.y + PADDLE_HEIGHT \div 2
       IN /\ IF approaching /\ reactionDue(in.difficulty,
                                    in.aiState.lastReactionTime, in.currentTime)
             THEN /\ out.lastReactionTime = in.currentTime
                  /\ out.targetY >= 0 /\ out.targetY <= PhoneCanvas.height
             ELSE /\ out.targetY = in.aiState.targetY
                  /\ out.lastReactionTime = in.aiState.lastReactionTime
                  /\ ~approaching => out.newPaddleY = in.paddle.y
                  /\ approaching =>
                       /\ in.aiState.targetY >= centre0 + Px(2)
                             => out.newPaddleY > in.paddle.y
                       /\ in.aiState.targetY <= centre0 - Px(2)
                             => out.newPaddleY < in.paddle.y
                       /\ Abs(in.aiState.targetY - centre0) < Px(2)
                             => out.newPaddleY = in.paddle.y
          /\ out.lastReactionTime # in.aiState.lastReactionTime
               => reactionDue(in.difficulty, in.aiState.lastReactionTime,
                              out.lastReactionTime)

\* the second of two successive frames of the medium AI, 17 ms after a
\* reaction: the ball approaches, the delay of 100.02 ms has not passed, the
\* AI state is kept and the paddle steps on toward the old target
C17_Witness ==
    /\ call.fn = "computeAIMove"
    /\ call.input.difficulty = "medium"
    /\ call.input.ball.dx < 0
    /\ call.input.paddle.x < Px(400)
    /\ call.input.currentTime - call.input.aiState.lastReactionTime = FrameMs
    /\ call.input.aiState.lastReactionTime > Epoch
    /\ call.result.lastReactionTime = call.input.aiState.lastReactionTime
    /\ call.result.newPaddleY # call.input.paddle.y

\* C18: updateAIPaddle returns the paddle's y unchanged whenever the target
\* is less than 2 px from the paddle centre y + height / 2, at every paddle
\* position and difficulty.
C18_DeadZoneHolds ==
    (/\ call.fn = "updateAIPaddle"
     /\ Abs(call.input.targetY - (call.input.y + Px(40))) < Px(2))
    => call.result = call.input.y

\* the hard AI called with a target 1.5 px below the paddle centre
C18_Witness ==
    /\ call.fn = "updateAIPaddle"
    /\ call.input.difficulty = "hard"
    /\ call.input.targetY - (call.input.y + Px(40)) = 15
    /\ call.last = call.input.y
    /\ call.result = call.input.y

\* C19: for every finite ball and the canvas height 500, predictBallPosition
\* terminates: with dx = 0 it returns ball.y at once; with dx # 0 its loop
\* makes progress, never coming back to the predictedY it started from, and
\* what it returns lies in [0, height].
C19_PredictTerminates ==
    call.fn = "predictBallPosition"
    => /\ call.input.ball.dx = 0
            => /\ call.pc = "returned"
               /\ ~call.reflected
               /\ call.predictedY = Exact(call.input.ball.y)
       /\ call.pc = "returned" /\ call.input.ball.dx # 0
            => /\ ~call.predictedY.big
               /\ call.predictedY.v >= 0
               /\ call.predictedY.v <= PhoneCanvas.height
       /\ call.pc = "loop" /\ call.reflected
            => call.predictedY # call.start

\* the same for the balls of the game, whose dy is on the grid
C19_PredictTerminatesInGame ==
    (call.fn = "predictBallPosition" /\ ~call.input.ball.dy.big)
    => C19_PredictTerminates

\* the squared distance between the centres of the ball and of the floating
\* power-up at the pickup test of the frame
pickupDistance2 ==
    (atPickup.ball.x - atPickup.powerUps[1].x)
        * (atPickup.ball.x - atPickup.powerUps[1].x)
    + (atPickup.ball.y - atPickup.powerUps[1].y)
        * (atPickup.ball.y - atPickup.powerUps[1].y)

\* C20: in a frame with a floating power-up the primary ball picks it up
\* iff the distance between their centres is less than ball.radius + 20 =
\* 28 px, a distance of exactly 28 px being no pickup: the power-up leaves
\* the field and its effect becomes active, owned by "right" when ball.dx >
\* 0 and by "left" otherwise; without pickup the field and the effects stay
\* as they were.  getPowerUpOwner gives "left" for dx = 0.
C20_PickupIffTouching ==
    /\ (played /\ atPickup.powerUps # <<>>)
       => LET type == atPickup.powerUps[1].type
              owner == IF atPickup.ball.dx > 0 THEN "right" ELSE "left"
          IN IF pickupDistance2 < Px(28) * Px(28)
             THEN /\ gameState.powerUps = <<>>
                  /\ gameState.activePowerUps[type].active
                  /\ type \in {"bigPaddle", "shield"}
                       => gameState.activePowerUps[type].player = owner
             ELSE /\ gameState.powerUps = atPickup.powerUps
                  /\ gameState.activePowerUps = atPickup.activePowerUps
    /\ call.fn = "getPowerUpOwner"
       => call.result = IF call.input.dx > 0 THEN "right" ELSE "left"

\* a frame in which the ball, flying left, came within 28 px of a shield,
\* less than 0.3 px inside the pickup distance, and the left player owns it
C20_Witness ==
    /\ played
    /\ atPickup.powerUps # <<>>
    /\ atPickup.powerUps[1].type = "shield"
    /\ atPickup.ball.dx < 0
    /\ pickupDistance2 < Px(28) * Px(28)
    /\ pickupDistance2 > (Px(28) - 3) * (Px(28) - 3)
    /\ gameState.powerUps = <<>>
    /\ gameState.activePowerUps.shield.player = "left"

\* the frames executed in the current game: all frames so far in the first
\* game, the frame that ran the reset and the frames after it in a later one
ticksOfGame ==
    IF gameState.session.sessionsPlayed = 0 THEN TicksRun
    ELSE TicksSinceReset + 1

\* C21: a new game and a game after a reset start with a grace period: no
\* power-up is on the field before the 420th executed frame of the game
\* (the frame that runs the reset being the first of its game); while no
\* player has won, the spawn timer counts those frames down from 420, and
\* the 420th frame spawns the first power-up.
C21_GracePeriod ==
    /\ ticksOfGame < 420 => gameState.powerUps = <<>>
    /\ (ticksOfGame < 420 /\ gameState.gameWinner = NoPlayer)
          => gameState.powerUpSpawnTimer = 420 - ticksOfGame
    /\ (ticksOfGame = 420 /\ played)
          => /\ Len(atPickup.powerUps) = 1
             /\ atPickup.powerUps[1].spawnTime = now

\* the 420th frame of the game after a reset spawned the first power-up
C21_Witness ==
    /\ gameState.session.sessionsPlayed = 1
    /\ ticksOfGame = 420
    /\ played
    /\ Len(gameState.powerUps) = 1
    /\ gameState.powerUps[1].spawnTime = now

insideMargins(powerUp, canvas) ==
    LET margin == Px(30) + powerUp.floatRadius
    IN /\ margin <= powerUp.x /\ powerUp.x <= canvas.width - margin
       /\ margin <= powerUp.y /\ powerUp.y <= canvas.height - margin
       /\ (powerUp.x = margin \/ powerUp.x = canvas.width - margin)
             => powerUp.baseX = powerUp.x
       /\ (powerUp.y = margin \/ powerUp.y = canvas.height - margin)
             => powerUp.baseY = powerUp.y

\* C23: on every canvas, what updatePowerUpAnimation returns floats inside
\* the margins, margin <= x <= width - margin and margin <= y <= height -
\* margin with margin = 30 + the new float radius, and a coordinate equal to
\* one of its two bounds is the base coordinate of its axis.
C23_FloatInsideMargins ==
    call.fn = "updatePowerUpAnimation"
    => insideMargins(call.result, call.input.canvas)

\* the same on the canvases that are at least 220 px wide and high, twice
\* the largest margin
C23_FloatInsideMarginsOnWideCanvas ==
    (/\ call.fn = "updatePowerUpAnimation"
     /\ call.input.canvas.width >= Px(220)
     /\ call.input.canvas.height >= Px(220))
    => insideMargins(call.result, call.input.canvas)

\* maxFloatRadius x (1 + elapsedSeconds / 10) has reached 80 px
reachesCap(powerUp, currentTime) ==
    powerUp.maxFloatRadius * (10000 + (currentTime - powerUp.spawnTime))
      >= Px(80) * 10000

\* C24: under a clock that does not go back, the float radius that
\* updatePowerUpAnimation computes is never below the radius of the call
\* before (for the first call, the radius of the spawn), is never above 80 px,
\* and is 80 px once maxFloatRadius x (1 + elapsedSeconds / 10) reaches 80,
\* which it has 100 seconds after the spawn.
C24_FloatRadiusGrowsToCap ==
    call.fn = "updatePowerUpAnimation"
    => /\ call.result.floatRadius >= call.input.powerUp.floatRadius
       /\ call.result.floatRadius <= Px(80)
       /\ reachesCap(call.input.powerUp, call.input.currentTime)
             => call.result.floatRadius = Px(80)
       /\ call.input.currentTime - call.input.powerUp.spawnTime >= 100000
             => call.result.floatRadius = Px(80)

\* a later call for a power-up that was below the cap and is on it now
C24_Witness ==
    /\ call.fn = "updatePowerUpAnimation"
    /\ call.steps > 1
    /\ call.input.powerUp.floatRadius < Px(80)
    /\ call.input.powerUp.floatRadius > call.input.powerUp.maxFloatRadius
    /\ call.result.floatRadius = Px(80)

\* what the simulation computes: ball, paddle positions, scores, winner,
\* effects, power-ups and the target of the AI
simulationState(s) ==
    [ball |-> s.ball, paddles |-> s.paddles, score |-> s.score,
     gameWinner |-> s.gameWinner, activePowerUps |-> s.activePowerUps,
     powerUps |-> s.powerUps, targetY |-> s.ai.targetY]

\* the input signals and the configuration of the AI
inputSignals(s) ==
    [keys |-> s.keys, touch |-> s.touch, enabled |-> s.ai.enabled,
     difficulty |-> s.ai.difficulty]

\* C25: a step between two frames (the clock stands still: a key, touch,
\* resize, AI toggle or difficulty handler) leaves ball, paddles, scores,
\* winner, effects, power-ups and AI target as they were.
C25_OnlyTickMutatesSimulation ==
    [][now' = now => simulationState(gameState') = simulationState(gameState)]_vars

\* the same for the handlers of keys, touches, the AI toggle and the
\* difficulty, which are the steps that change an input signal
C25_InputHandlersKeepSimulation ==
    [][(now' = now /\ inputSignals(gameState') # inputSignals(gameState))
         => /\ simulationState(gameState') = simulationState(gameState)
            /\ gameState'.canvas = gameState.canvas]_vars

\* C26: a drawing exception never stops the simulation: whatever canvas call
\* throws in a frame, render() does not let the exception out, the game stays
\* started and the next frame callback is requested.
C26_DrawingErrorKeepsLoop ==
    ~(loop.render = "propagated")

\* the same for the canvas calls that renderFallback() does not make: the
\* catch of render() draws the fallback and the loop goes on
C26_FallbackKeepsLoop ==
    (lastTick # NoTick /\ loop.render = "fallback")
    => loop.started /\ loop.scheduled /\ loop.lastFrameTime = now

\* C27: a frame callback less than 16.67 ms after the last execution of
\* updateGame executes nothing, so two consecutive executions of updateGame
\* are at least 16.67 ms apart.
C27_ExecutionsApart ==
    Len(loop.executedAt) = 2
    => (loop.executedAt[2].time - loop.executedAt[1].time) * 100 >= 1667

\* the same for an execution after one whose drawing did not throw out of
\* render(), also across a pause; and a callback that comes early executes
\* nothing and requests the next callback
C27_ExecutionsApartAfterDrawing ==
    /\ (Len(loop.executedAt) = 2 /\ loop.executedAt[1].render # "propagated")
         => (loop.executedAt[2].time - loop.executedAt[1].time) * 100 >= 1667
    /\ (loop.render = "skipped" /\ loop.started)
         => loop.scheduled /\ lastTick = NoTick
            /\ (now - loop.lastFrameTime) * 100 < 1667

\* C28: a frame in which the primary ball, moving left, touches the left
\* paddle has after the paddle collisions dx > 0, the ball on the face of
\* the paddle (x = paddle.x + width + radius), and rallies and totalHits one
\* higher than before; for the right paddle dx < 0 and x = paddle.x - radius.
\* The ball still moves away from that paddle at the end of the frame, and
\* it moved towards it before the frame: the frame before was no hit of the
\* same paddle.
C28_PaddleHitTurnsBall ==
    /\ hitsLeftPaddle =>
          /\ atScoring.ball.dx > 0
          /\ atScoring.ball.x = atScoring.paddles.left.x + PADDLE_WIDTH + BALL_RADIUS
          /\ atScoring.session.rallies = afterResetKey.session.rallies + 1
          /\ atScoring.session.totalHits = afterResetKey.session.totalHits + 1
          /\ gameState.ball.dx > 0
          /\ lastTick.before.ball.dx < 0
    /\ hitsRightPaddle =>
          /\ atScoring.ball.dx < 0
          /\ atScoring.ball.x = atScoring.paddles.right.x - BALL_RADIUS
          /\ atScoring.session.rallies = afterResetKey.session.rallies + 1
          /\ atScoring.session.totalHits = afterResetKey.session.totalHits + 1
          /\ gameState.ball.dx < 0
          /\ lastTick.before.ball.dx > 0

\* the left paddle returns a ball that the right paddle has returned
C28_Witness ==
    /\ hitsLeftPaddle
    /\ gameState.session.rallies >= 2
    /\ atPaddles.ball.x < gameState.ball.x

\* the extra balls of the frame before "Check out of bounds"
extraBallsAtScoring == atScoring.activePowerUps.multiBall.extraBalls

\* an extra ball is outside the field, left or right
extraBallOut ==
    played /\ atScoring.activePowerUps.multiBall.active
    /\ \E i \in 1..Len(extraBallsAtScoring) :
          checkBallOutOfBounds(extraBallsAtScoring[i], gameState.canvas.width)
            # NoPlayer

\* an extra ball touches a paddle it flies at
extraBallHit ==
    played /\ atPaddles.activePowerUps.multiBall.active
    /\ \E i \in 1..Len(atPaddles.activePowerUps.multiBall.extraBalls) :
          LET b == atPaddles.activePowerUps.multiBall.extraBalls[i]
          IN \/ b.dx < 0 /\ checkCollision(b, EXTRA_BALL_RADIUS,
                                atPaddles.paddles.left,
                                leftPaddleMultiplier(atPaddles))
             \/ b.dx > 0 /\ checkCollision(b, EXTRA_BALL_RADIUS,
                                atPaddles.paddles.right,
                                rightPaddleMultiplier(atPaddles))

\* an extra ball overlaps a floating power-up
extraBallOnPowerUp ==
    played /\ atPickup.activePowerUps.multiBall.active
    /\ \E i \in 1..Len(atPickup.activePowerUps.multiBall.extraBalls),
          j \in 1..Len(atPickup.powerUps) :
          LET b == atPickup.activePowerUps.multiBall.extraBalls[i]
              dx == b.x - atPickup.powerUps[j].x
              dy == b.y - atPickup.powerUps[j].y
              reach == EXTRA_BALL_RADIUS + POWER_UP_RADIUS
          IN dx * dx + dy * dy < reach * reach

\* the frame of the same state without its extra balls
withoutExtraBalls ==
    updateGame([lastTick.before EXCEPT
                   !.activePowerUps.multiBall.extraBalls = <<>>],
               lastTick.draw, now)

C29_WitnessOnPowerUp ==
    /\ extraBallOnPowerUp
    /\ extraBallHit
    /\ findCollidingPowerUp(atPickup.ball, atPickup.powerUps) = {}

\* ball `new` is ball `old` advanced by mulNum / 2 times its velocity, to
\* 0.05 px, with the velocity of `old`
advancedBy(old, new, mulNum) ==
    /\ Abs(2 * (new.x - old.x) - mulNum * old.dx) <= 1
    /\ Abs(2 * (new.y - old.y) - mulNum * old.dy) <= 1
    /\ new.dx = old.dx
    /\ new.dy = old.dy

\* the frame has advanced the primary ball and every extra ball by
\* mulNum / 2 times their velocities
frameAdvancedBy(mulNum) ==
    /\ advancedBy(afterResetKey.ball, atPickup.ball, mulNum)
    /\ Len(atPickup.activePowerUps.multiBall.extraBalls)
          = Len(atTimers.activePowerUps.multiBall.extraBalls)
    /\ \A i \in 1..Len(atTimers.activePowerUps.multiBall.extraBalls) :
          advancedBy(atTimers.activePowerUps.multiBall.extraBalls[i],
                     atPickup.activePowerUps.multiBall.extraBalls[i], mulNum)

\* C30: the 360 frames after a fast-ball pickup, which are the frames that
\* start with the effect active (counter 360 down to 1), advance the primary
\* ball and every extra ball by 1.5 x velocity, every other frame advances
\* them by 1 x velocity, and the velocity is left as it is.
C30_FastBallFor360Ticks ==
    played =>
       IF afterResetKey.activePowerUps.fastBall.active
       THEN frameAdvancedBy(3)
       ELSE frameAdvancedBy(2)

\* the same with 359 frames: the frames that start with the counter at 360
\* down to 2; the frame that starts with the counter at 1 ends the effect
\* before it moves the balls.  The pickup leaves the velocity as it is.
C30_FastBallFor359Ticks ==
    played =>
       /\ IF afterResetKey.activePowerUps.fastBall.active
             /\ afterResetKey.activePowerUps.fastBall.timeLeft > 1
          THEN frameAdvancedBy(3)
          ELSE frameAdvancedBy(2)
       /\ pickedType = "fastBall"
            => pickupStep(atPickup, lastTick.draw).ball = atPickup.ball

\* C31: for a ball that flies at targetX, a whole number of frames away,
\* what predictBallPosition returned is the y the ball has, under the
\* movement and the wall reflection of the frames, in the frame in which
\* its x reaches targetX.
C31_PredictionIsFlight ==
    (call.fn = "flight" /\ call.ball.x = call.targetX)
    => call.ball.y = call.predictedY

\* the same for a flight that touched no wall
C31_PredictionIsStraightFlight ==
    (call.fn = "flight" /\ call.ball.x = call.targetX /\ ~call.bounced)
    => call.ball.y = call.predictedY

\* how far v is outside the interval lo..hi
outsideBy(v, lo, hi) == IF v < lo THEN lo - v ELSE IF v > hi THEN v - hi ELSE 0

\* the ball is within its radius of the rectangle of a paddle that is m
\* paddle heights high about the centre of the paddle
withinRadius(ball, paddle, m) ==
    LET middle == paddle.y + PADDLE_HEIGHT \div 2
        distanceX == outsideBy(ball.x, paddle.x, paddle.x + PADDLE_WIDTH)
        distanceY == outsideBy(ball.y, middle - (m * PADDLE_HEIGHT) \div 2,
                               middle + (m * PADDLE_HEIGHT) \div 2)
    IN distanceX * distanceX + distanceY * distanceY
         <= BALL_RADIUS * BALL_RADIUS

\* C32: the paddle test is true iff the squared distance from the centre of
\* the ball to the closest point of the paddle rectangle is at most the
\* squared radius, touching included; the rectangle of the side that owns a
\* running big-paddle effect has the x-range of the paddle and twice its
\* height about its centre (paddle.y - height / 2 to paddle.y + 3 x height /
\* 2), the rectangle of every other paddle is the paddle.
C32_CollisionIffWithinRadius ==
    call.fn = "checkBallPaddleCollision" =>
       LET big(side) == call.input.effect.active
                          /\ call.input.effect.player = side
       IN /\ call.left <=> withinRadius(call.input.ball, call.input.paddles.left,
                                        IF big("left") THEN 2 ELSE 1)
          /\ call.right <=> withinRadius(call.input.ball,
                                         call.input.paddles.right,
                                         IF big("right") THEN 2 ELSE 1)
          /\ (big("left") /\ call.input.ball.x = Px(46)) =>
                (call.left <=> call.input.ball.y \in Px(162)..Px(338))
          /\ (~big("left") /\ call.input.ball.x = Px(46)) =>
                (call.left <=> call.input.ball.y \in Px(202)..Px(298))

\* a ball that touches the top of the enlarged left paddle and is out of
\* reach of the paddle itself
C32_Witness ==
    /\ call.fn = "checkBallPaddleCollision"
    /\ call.input.effect.active /\ call.input.effect.player = "left"
    /\ call.input.ball.y = Px(162)
    /\ call.left /\ ~call.right

\* C33: after every frame the trail of the primary ball holds at most 19
\* particles and the trail of each extra ball at most 14, every particle
\* with a life of at least 1, the lives falling by exactly 1 from particle
\* to particle towards the oldest: one particle a frame, one life a frame.
C33_TrailsBounded ==
    LET bounded(trail, most) ==
           /\ Len(trail) <= most
           /\ \A i \in 1..Len(trail) :
                 /\ trail[i].life >= 1
                 /\ trail[i].life = most - (Len(trail) - i)
    IN /\ bounded(trails.ball, 19)
       /\ Len(trails.extraBalls)
             = Len(gameState.activePowerUps.multiBall.extraBalls)
       /\ \A i \in 1..Len(trails.extraBalls) :
             bounded(trails.extraBalls[i], 14)

\* full trails behind the primary ball and behind an extra ball
C33_Witness ==
    /\ lastTick.ran
    /\ Len(trails.ball) = 19
    /\ trails.ball[1].life = 1
    /\ Len(trails.extraBalls) = 2
    /\ Len(trails.extraBalls[1]) = 14

\* a ball that overlaps a wall does not fly at it
leavesWall(ball, radius, canvasHeight) ==
    /\ ball.y - radius <= 0 => ball.dy >= 0
    /\ ball.y + radius >= canvasHeight => ball.dy <= 0

\* C34: at the end of every frame a ball, primary or extra, that overlaps
\* the top wall (y - radius <= 0) has dy >= 0 and one that overlaps the
\* bottom wall (y + radius >= height) has dy <= 0.
C34_NoBallHeadsIntoWall ==
    played =>
       /\ leavesWall(gameState.ball, BALL_RADIUS, gameState.canvas.height)
       /\ \A i \in 1..Len(gameState.activePowerUps.multiBall.extraBalls) :
             leavesWall(gameState.activePowerUps.multiBall.extraBalls[i],
                        EXTRA_BALL_RADIUS, gameState.canvas.height)

\* the frame neither bounced the primary ball off a paddle nor scored
flewOn == played /\ ~hitsLeftPaddle /\ ~hitsRightPaddle /\ exitSide = "none"

\* C35: the primary ball never stalls horizontally: its dx is never zero and
\* it ends every frame inside the field; a played frame without a paddle hit
\* and without a point keeps dx and carries the ball at least |dx| closer to
\* the goal line it flies at, so that a paddle hit or a point follows within
\* canvas.width / |dx| frames
C35_BallNeverStalls ==
    /\ gameState.ball.dx # 0
    /\ played =>
          /\ gameState.ball.x >= 0
          /\ gameState.ball.x <= gameState.canvas.width
    /\ flewOn =>
          /\ gameState.ball.dx = afterResetKey.ball.dx
          /\ (gameState.ball.x - afterResetKey.ball.x) * Sign(gameState.ball.dx)
                >= Abs(gameState.ball.dx)

\* a frame of free flight after a paddle hit and a served point
C35_Witness ==
    /\ flewOn
    /\ gameState.session.rallies >= 1
    /\ gameState.score.left + gameState.score.right >= 1
    /\ Abs(gameState.ball.dx) # Px(6)

\* the scores a frame starts to play with: 0 : 0 when it handles the reset
\* key, the scores of the frame before otherwise
scoresPlayedFrom ==
    IF sawReset THEN [left |-> 0, right |-> 0] ELSE lastTick.before.score

\* C36: both scores are integers in 0..11 and at most one of them is 11;
\* after the reset handling of a frame no score goes down in it, and at most
\* one of the two scores changes, by exactly +1
C36_ScoresStepByOne ==
    /\ gameState.score.left \in 0..11
    /\ gameState.score.right \in 0..11
    /\ ~(gameState.score.left = 11 /\ gameState.score.right = 11)
    /\ lastTick.ran =>
          \/ gameState.score = scoresPlayedFrom
          \/ gameState.score =
                [scoresPlayedFrom EXCEPT !.left = @ + 1]
          \/ gameState.score =
                [scoresPlayedFrom EXCEPT !.right = @ + 1]

\* the frame of the eleventh point of one side, the other side having scored
C36_Witness ==
    /\ lastTick.ran
    /\ ~sawReset
    /\ lastTick.before.score.left = 10
    /\ gameState.score.left = 11
    /\ gameState.score.right >= 1

\* the frame started with a winner set and the reset key up
frozenFrame ==
    lastTick.ran /\ lastTick.before.gameWinner # NoPlayer /\ ~sawReset

\* C37: since the last reset playVictory was called once if a winner is set
\* and never otherwise, and the frame that called it is the frame that set
\* the winner; playScore was called once for every point on the board, and
\* by a frame once for the point it scored; a frame that starts with a winner
\* set and the reset key up calls no method of the audio manager
C37_SoundsFollowGame ==
    /\ sounds.playVictory = IF gameState.gameWinner # NoPlayer THEN 1 ELSE 0
    /\ sounds.playScore = gameState.score.left + gameState.score.right
    /\ lastTick.ran =>
          /\ sounds.frame.playVictory =
                IF ~frozenFrame /\ gameState.gameWinner # NoPlayer
                THEN 1 ELSE 0
          /\ sounds.frame.playScore =
                gameState.score.left + gameState.score.right
                  - scoresPlayedFrom.left - scoresPlayedFrom.right
    /\ frozenFrame => sounds.frame = NoFrameSounds

\* a frozen frame after the eleventh point, other sounds having been heard
C37_Witness ==
    /\ frozenFrame
    /\ sounds.playVictory = 1
    /\ sounds.playScore >= 12

\* the frame of the eleventh point calls playScore and playVictory
C37_WitnessVictory ==
    /\ lastTick.ran
    /\ sounds.frame.playVictory = 1
    /\ sounds.frame.playScore = 1
    /\ sounds.playScore >= 12

\* the frame picked a power-up of the type of a running effect
pickedAgain(type) ==
    /\ pickedType = type
    /\ lastTick.before.activePowerUps[type].active
    /\ lastTick.before.activePowerUps[type].timeLeft > 1

\* C38: a frame that picks up a multi-ball power-up while multi-ball runs
\* takes the power-up from the field and draws the spawn timer again, and
\* counts the effect down by 1 like a frame without pickup, so that the
\* effect taken up with MaxAgainLeft frames left has MaxAgainLeft - n frames
\* left after n frames and is over after MaxAgainLeft frames, picked again or
\* not; a frame that picks big-paddle or fast-ball while it runs ends with
\* that effect at 480 or 360 frames
C38_RepickKeepsMultiBallCountdown ==
    LET old == lastTick.before.activePowerUps
        new == gameState.activePowerUps
    IN /\ pickedAgain("multiBall") =>
             /\ gameState.powerUps = <<>>
             /\ gameState.powerUpSpawnTimer =
                   IF lastTick.draw.spawnTimer = 0 THEN 120 ELSE 599
             /\ new.multiBall.active
             /\ new.multiBall.timeLeft = old.multiBall.timeLeft - 1
             /\ Len(new.multiBall.extraBalls) = 2
       /\ new.multiBall.active =>
             /\ TicksRun < MaxAgainLeft
             /\ new.multiBall.timeLeft = MaxAgainLeft - TicksRun
       /\ pickedAgain("bigPaddle") =>
             /\ gameState.powerUps = <<>>
             /\ new.bigPaddle.active
             /\ new.bigPaddle.timeLeft = 480
       /\ pickedAgain("fastBall") =>
             /\ gameState.powerUps = <<>>
             /\ new.fastBall.active
             /\ new.fastBall.timeLeft = 360

\* multi-ball picked again in the second frame, the spawn timer drawn at its
\* lowest
C38_Witness ==
    /\ pickedAgain("multiBall")
    /\ gameState.activePowerUps.multiBall.timeLeft = MaxAgainLeft - 2
    /\ gameState.powerUpSpawnTimer = 120

\* the frame in which multi-ball ends, the power-up picked again before
C38_WitnessExpiry ==
    /\ played
    /\ lastTick.before.activePowerUps.multiBall.active
    /\ lastTick.before.powerUps = <<>>
    /\ ~gameState.activePowerUps.multiBall.active
    /\ gameState.activePowerUps.multiBall.extraBalls = <<>>
    /\ TicksRun = MaxAgainLeft

\* big-paddle picked again by the other player
C38_WitnessBigPaddle ==
    /\ pickedAgain("bigPaddle")
    /\ lastTick.before.activePowerUps.bigPaddle.timeLeft < MaxAgainLeft
    /\ gameState.activePowerUps.bigPaddle.player = "left"

\* the effect of a render with gameStarted false was the last to run
pauseEffectRan == ~frames.rendered

\* C39: at most one frame callback is pending at any time; once the effect of
\* the pause has run no callback is pending, and no step executes updateGame
\* until the effect of a start has run
C39_SingleFrameLoop ==
    /\ [](/\ Cardinality(frames.pending) <= 1
          /\ pauseEffectRan => frames.pending = {} /\ ~loop.scheduled)
    /\ [][pauseEffectRan =>
            /\ gameState' = gameState
            /\ loop'.frameCount = loop.frameCount
            /\ ~lastTick'.ran]_vars

\* the game paused after two executed frames, the callback that was pending
\* cancelled, the start button pressed again
C39_Witness ==
    /\ pauseEffectRan
    /\ loop.started
    /\ loop.frameCount >= 2
    /\ frames.requested >= 3
    /\ frames.animationFrameRef = 0
    /\ frames.pending = {}

\* a callback that was pending when the button was pressed executed a frame
\* before the effect of the pause ran
C39_WitnessLateFrame ==
    /\ ~loop.started
    /\ frames.rendered
    /\ lastTick.ran
    /\ loop.render = "drawn"
    /\ Cardinality(frames.pending) = 1


====
